---------------------------- MODULE Spec2Model ----------------------------
(***************************************************************************)
(* Model of the MTProxy health checker (helpers/mtproto_checker...py):     *)
(* the per-proxy check (check_one_proxy), the cycle orchestration          *)
(* (check_all), the State Tracker and the refresher loop, and the HTTP     *)
(* handler that reads the snapshot, changes the refresh window and raises  *)
(* the force signal.                                                       *)
(*                                                                         *)
(* Strings are sequences of one-character strings; an optional integer is  *)
(* None (-1), an optional string is NoStr.                                 *)
(***************************************************************************)
EXTENDS Integers, Sequences, FiniteSets, TLC

\* ------------------------------------------------------------------ bounds
\* Probes (checks of one proxy) a run is followed through: the refresher of a
\* configuration of n proxies is followed through MaxProbes \div n cycles, and
\* through its first cycle in any case.
MaxProbes == 4
\* Latencies reported by a probe are 0..MaxLatency milliseconds.
MaxLatency == 1
\* Seconds of one wait that elapse one by one; the rest elapses in one step.
MaxTicks == 1

\* ------------------------------------------------------- program constants
DEFAULT_REFRESH_MIN == 300
DEFAULT_REFRESH_MAX == 600
check_timeout_s == 10

\* Python's None for an Optional[int] field, and for an Optional[str] field.
None == -1
NoStr == "None"

\* The framing modes, in the order get_mtproxy_connection_classes lists them.
MTProxyConnections ==
    << "ConnectionTcpMTProxyRandomizedIntermediate",
       "ConnectionTcpMTProxyIntermediate",
       "ConnectionTcpMTProxyAbridged" >>

\* ------------------------------------------------------- sequence helpers
RECURSIVE Rep(_, _)
Rep(s, n) == IF n = 0 THEN << >> ELSE s \o Rep(s, n - 1)

Prefix(s, n) == SubSeq(s, 1, IF Len(s) < n THEN Len(s) ELSE n)
Drop(s, n) == SubSeq(s, n + 1, Len(s))
StartsWith(s, p) == Len(s) >= Len(p) /\ SubSeq(s, 1, Len(p)) = p
Range(s) == {s[i] : i \in DOMAIN s}

Min2(a, b) == IF a < b THEN a ELSE b
Max2(a, b) == IF a > b THEN a ELSE b

\* ------------------------------------------------------ characters, hex
HexDigits == << "0", "1", "2", "3", "4", "5", "6", "7",
                "8", "9", "a", "b", "c", "d", "e", "f" >>
UpperHex == << "A", "B", "C", "D", "E", "F" >>
Whitespace == {" ", "\t", "\n", "\r"}

IsHexLower(c) == \E i \in 1..16 : HexDigits[i] = c
\* str.lower() on the characters a secret can hold.
LowerChar(c) ==
    IF \E i \in 1..6 : UpperHex[i] = c
    THEN HexDigits[10 + (CHOOSE i \in 1..6 : UpperHex[i] = c)]
    ELSE c
Lower(s) == [i \in DOMAIN s |-> LowerChar(s[i])]
IsHexChar(c) == IsHexLower(LowerChar(c))
HexVal(c) == (CHOOSE i \in 1..16 : HexDigits[i] = LowerChar(c)) - 1

RECURSIVE LStrip(_)
LStrip(s) == IF s # << >> /\ s[1] \in Whitespace THEN LStrip(Tail(s)) ELSE s
RECURSIVE RStrip(_)
RStrip(s) ==
    IF s # << >> /\ s[Len(s)] \in Whitespace
    THEN RStrip(SubSeq(s, 1, Len(s) - 1)) ELSE s
\* str.strip()
Strip(s) == RStrip(LStrip(s))

\* bytes.fromhex(s): whitespace is skipped before a byte, then two hex digits
\* are read; anything else raises ValueError.
RECURSIVE FromHexOK(_)
FromHexOK(s) ==
    IF s = << >> THEN TRUE
    ELSE IF s[1] \in Whitespace THEN FromHexOK(Tail(s))
    ELSE /\ Len(s) >= 2
         /\ IsHexChar(s[1])
         /\ IsHexChar(s[2])
         /\ FromHexOK(Drop(s, 2))
RECURSIVE FromHex(_)
FromHex(s) ==
    IF s = << >> THEN << >>
    ELSE IF s[1] \in Whitespace THEN FromHex(Tail(s))
    ELSE << 16 * HexVal(s[1]) + HexVal(s[2]) >> \o FromHex(Drop(s, 2))

\* ------------------------------------------- secret classifier (154..187)
IsPrintable(x) == 32 <= x /\ x <= 126
IsAlpha(x) == (65 <= x /\ x <= 90) \/ (97 <= x /\ x <= 122)
IsDigit(x) == 48 <= x /\ x <= 57
Dot == 46
Dash == 45
SelectPrintable(b) == SelectSeq(b, IsPrintable)

looks_like_ee_domain_secret(secret_hex) ==
    LET s == Strip(Lower(secret_hex))
    IN  /\ StartsWith(s, << "e", "e" >>)
        /\ Len(s) >= 40
        /\ FromHexOK(s)
        /\ Len(FromHex(s)) > 17
        /\ LET text == SelectPrintable(Drop(FromHex(s), 17))
           IN  /\ Dot \in Range(text)
               /\ \E i \in DOMAIN text : IsAlpha(text[i])

IsAllowedHostChar(x) == IsAlpha(x) \/ IsDigit(x) \/ x = Dot \/ x = Dash
RECURSIVE LStripDotDash(_)
LStripDotDash(s) ==
    IF s # << >> /\ s[1] \in {Dot, Dash} THEN LStripDotDash(Tail(s)) ELSE s
RECURSIVE RStripDotDash(_)
RStripDotDash(s) ==
    IF s # << >> /\ s[Len(s)] \in {Dot, Dash}
    THEN RStripDotDash(SubSeq(s, 1, Len(s) - 1)) ELSE s

\* The extracted domain as a sequence of character codes; << >> stands for
\* None (a returned domain holds a '.', so it is never empty).
extract_domain_from_ee_secret(secret_hex) ==
    LET h == Strip(Lower(secret_hex))
    IN  IF ~FromHexOK(h) THEN << >>
        ELSE IF Len(FromHex(h)) <= 17 THEN << >>
        ELSE LET tail == Drop(FromHex(h), 17)
                 s == RStripDotDash(LStripDotDash(
                          SelectSeq(SelectPrintable(tail), IsAllowedHostChar)))
             IN  IF Dot \in Range(s) THEN s ELSE << >>

\* ---------------------------------------------- secret_variants (190..216)
\* Mutant: the length of a value is not looked at.
IsValidVariant_AnyLength(val) ==
    /\ val # << >>
    /\ \A i \in DOMAIN val : IsHexLower(val[i])

IsValidVariant(val) ==
    /\ val # << >>
    /\ Len(val) % 2 = 0
    /\ \A i \in DOMAIN val : IsHexLower(val[i])

\* add(name, val) on the list built so far.
AddVariant(variants, name, val0) ==
    LET val == Lower(val0)
    IN  IF IsValidVariant(val) /\ ~(\E i \in DOMAIN variants : variants[i][2] = val)
        THEN Append(variants, << name, val >>)
        ELSE variants

secret_variants(secret_hex) ==
    LET s == Strip(Lower(secret_hex))
        ee == StartsWith(s, << "e", "e" >>)
        dd == StartsWith(s, << "d", "d" >>)
        v1 == AddVariant(<< >>, "orig", s)
        v2 == IF Len(s) >= 4 /\ (ee \/ dd)
              THEN AddVariant(v1, "strip_prefix", Drop(s, 2)) ELSE v1
        v3 == IF ee /\ Len(s) > 34
              THEN AddVariant(v2, "ee_to_dd", << "d", "d" >> \o Drop(s, 2)) ELSE v2
        v4 == IF dd /\ Len(s) > 34
              THEN AddVariant(v3, "dd_to_ee", << "e", "e" >> \o Drop(s, 2)) ELSE v3
    IN  v4


\* ------------------------- normalize_secret_to_hex_str (128..151), links
\* The base64 alphabet, value v at index v + 1.
B64Alphabet ==
    << "A", "B", "C", "D", "E", "F", "G", "H", "I", "J", "K", "L", "M",
       "N", "O", "P", "Q", "R", "S", "T", "U", "V", "W", "X", "Y", "Z",
       "a", "b", "c", "d", "e", "f", "g", "h", "i", "j", "k", "l", "m",
       "n", "o", "p", "q", "r", "s", "t", "u", "v", "w", "x", "y", "z",
       "0", "1", "2", "3", "4", "5", "6", "7", "8", "9", "+", "/" >>
PadChar == "="
IsB64Char(c) == \E i \in DOMAIN B64Alphabet : B64Alphabet[i] = c
B64Val(c) == (CHOOSE i \in DOMAIN B64Alphabet : B64Alphabet[i] = c) - 1
B64Chr(v) == B64Alphabet[v + 1]

\* bytes.hex()
RECURSIVE HexStr(_)
HexStr(b) ==
    IF b = << >> THEN << >>
    ELSE << HexDigits[(b[1] \div 16) + 1], HexDigits[(b[1] % 16) + 1] >> \o HexStr(Tail(b))

\* base64.b64encode(b): three bytes give four characters, a last group of
\* one or two bytes is filled up with '='.
RECURSIVE B64Encode(_)
B64Encode(b) ==
    IF b = << >> THEN << >>
    ELSE IF Len(b) = 1 THEN
        LET n == b[1] * 16
        IN  << B64Chr(n \div 64), B64Chr(n % 64), PadChar, PadChar >>
    ELSE IF Len(b) = 2 THEN
        LET n == (b[1] * 256 + b[2]) * 4
        IN  << B64Chr(n \div 4096), B64Chr((n \div 64) % 64), B64Chr(n % 64), PadChar >>
    ELSE
        LET n == b[1] * 65536 + b[2] * 256 + b[3]
        IN  << B64Chr(n \div 262144), B64Chr((n \div 4096) % 64),
               B64Chr((n \div 64) % 64), B64Chr(n % 64) >> \o B64Encode(Drop(b, 3))

\* The '=' characters a text ends with, and the text before them.
RECURSIVE TrailingPads(_)
TrailingPads(t) ==
    IF t # << >> /\ t[Len(t)] = PadChar
    THEN 1 + TrailingPads(SubSeq(t, 1, Len(t) - 1)) ELSE 0
BeforePads(t) == SubSeq(t, 1, Len(t) - TrailingPads(t))

\* The bytes of a run of base64 characters: every four give three bytes, two
\* left over give one byte, three left over give two.
RECURSIVE B64Bytes(_)
B64Bytes(d) ==
    IF Len(d) < 2 THEN << >>
    ELSE IF Len(d) = 2 THEN
        << (B64Val(d[1]) * 64 + B64Val(d[2])) \div 16 >>
    ELSE IF Len(d) = 3 THEN
        LET n == B64Val(d[1]) * 4096 + B64Val(d[2]) * 64 + B64Val(d[3])
        IN  << n \div 1024, (n \div 4) % 256 >>
    ELSE
        LET n == B64Val(d[1]) * 262144 + B64Val(d[2]) * 4096
                   + B64Val(d[3]) * 64 + B64Val(d[4])
        IN  << n \div 65536, (n \div 256) % 256, n % 256 >> \o B64Bytes(Drop(d, 4))

\* base64.b64decode(t) with validate=False, for a text whose '=' are all at
\* its end: characters outside the alphabet are discarded; binascii.Error is
\* raised when one character is left over, or two or three without the '='
\* that complete the group.
B64Data(t) == SelectSeq(BeforePads(t), IsB64Char)
B64DecodeOK(t) ==
    LET rem == Len(B64Data(t)) % 4
    IN  \/ rem = 0
        \/ rem = 2 /\ TrailingPads(t) >= 2
        \/ rem = 3 /\ TrailingPads(t) >= 1
B64Decode(t) == B64Bytes(B64Data(t))

\* str.replace(" ", "")
RemoveSpaces(s) == SelectSeq(s, LAMBDA c : c # " ")
\* Lines 136..138.
CleanSecret(secret) ==
    LET s == RemoveSpaces(Strip(secret))
    IN  IF StartsWith(Lower(s), << "0", "x" >>) \/ StartsWith(s, << "0", "X" >>)
        THEN Drop(s, 2) ELSE s
\* Lines 146..147.
PadSecret(s) == s \o Rep(<< PadChar >>, (4 - (Len(s) % 4)) % 4)

SecretError == [ok |-> FALSE, hex |-> << >>]
SecretHex(h) == [ok |-> TRUE, hex |-> h]
\* normalize_secret_to_hex_str(secret) for a str: what it returns, or that
\* it raised.
normalize_secret_to_hex_str(secret) ==
    LET s == CleanSecret(secret)
    IN  IF FromHexOK(s) THEN SecretHex(Lower(s))
        ELSE IF B64DecodeOK(PadSecret(s)) THEN SecretHex(HexStr(B64Decode(PadSecret(s))))
        ELSE SecretError

\* A tg://proxy link as urlparse and parse_qs give it: whether scheme and
\* netloc are those of a proxy link, and the first values of server, port
\* and secret, << >> for a parameter that is absent or blank.
Link(is_proxy, server, port_s, secret) ==
    [is_proxy |-> is_proxy, server |-> server, port_s |-> port_s, secret |-> secret]
\* str.isdigit()
IsDigitStr(s) ==
    s # << >> /\ \A i \in DOMAIN s : s[i] \in {"0", "1", "2", "3", "4", "5", "6", "7", "8", "9"}
\* Lines 221..234: the link is refused before its secret is looked at.
LinkRefused(link) ==
    \/ ~link.is_proxy
    \/ Strip(link.server) = << >>
    \/ ~IsDigitStr(Strip(link.port_s))

\* Secrets of links: none, hex, base64 without its padding, and texts that
\* are neither.
SecretTexts ==
    { << >>,
      << "a", "b", "C", "D" >>,
      << "0", "x", "A", "B" >>,
      << " ", "a", " ", "b", " " >>,
      << "a", "b", "c" >>,
      << "Z", "g" >>,
      << "q" >>,
      << "z", "z", "z", "z", "z" >>,
      << "z", "z", "!", "!" >>,
      << "z", "z", "z", "!" >>,
      << "z", "z", "z", "z", "!", "!", "!", "!" >> }
Links ==
    { Link(TRUE, << "h" >>, << "4", "4", "3" >>, t) : t \in SecretTexts }
    \cup { Link(FALSE, << "h" >>, << "4", "4", "3" >>, << "a", "b" >>),
           Link(TRUE, << >>, << "4", "4", "3" >>, << "a", "b" >>),
           Link(TRUE, << "h" >>, << "x" >>, << "a", "b" >>) }

\* Byte sequences to encode.
ByteValues == {29, 105, 183, 255}
RECURSIVE ByteSeqs(_)
ByteSeqs(n) ==
    IF n = 0 THEN {<< >>}
    ELSE ByteSeqs(n - 1) \cup
         {Append(b, x) : b \in {c \in ByteSeqs(n - 1) : Len(c) = n - 1}, x \in ByteValues}

\* --------------------------------------------------------- configurations
\* One label of a server string split at '.': its text, and int(text), or
\* None when int(text) raises ValueError.
NumLabel(t, v) == [text |-> t, int |-> v]
TxtLabel(t) == [text |-> t, int |-> None]

Server1 == << NumLabel("10", 10), NumLabel("0", 0), NumLabel("0", 0), NumLabel("1", 1) >>
Server2 == << NumLabel("10", 10), NumLabel("0", 0), NumLabel("0", 0), NumLabel("2", 2) >>
Server3 == << NumLabel("9", 9), NumLabel("0", 0), NumLabel("0", 0), NumLabel("3", 3) >>
ServerHost == << TxtLabel("proxy"), TxtLabel("example"), TxtLabel("com") >>

\* Canonical secrets (what normalize_secret_to_hex_str returned at load).
SecretPlainA == << "d", "d" >> \o Rep(<< "1" >>, 32)
\* Same first 8 hex characters as SecretPlainA, another secret.
SecretPlainB == << "d", "d" >> \o Rep(<< "1" >>, 6) \o Rep(<< "2" >>, 26)
SecretPlainC == << "d", "d" >> \o Rep(<< "3" >>, 32)
\* dd + 17 bytes: longer than 34 hex characters, so it has a dd_to_ee variant.
SecretPlainLong == << "d", "d" >> \o Rep(<< "4" >>, 34)
\* ee + 16 bytes + "a.io"
SecretDomain ==
    << "e", "e" >> \o Rep(<< "0" >>, 32) \o << "6", "1", "2", "e", "6", "9", "6", "f" >>
\* ee + 16 bytes + "a..": classified domain-flavored, no domain extracted.
SecretNoDomain ==
    << "e", "e" >> \o Rep(<< "0" >>, 32) \o << "6", "1", "2", "e", "2", "e" >>
\* ee + 16 bytes: too short to be domain-flavored.
SecretShortEE == << "e", "e" >> \o Rep(<< "5" >>, 32)

Proxy(name, server, port, secret_hex) ==
    [name |-> name, server |-> server, port |-> port, secret_hex |-> secret_hex]

\* Three proxies on distinct addresses.
ConfigDistinct ==
    << Proxy("p1", Server1, 443, SecretPlainA),
       Proxy("p2", Server2, 443, SecretPlainC),
       Proxy("p3", Server3, 8443, SecretDomain) >>
\* Two proxies on one server:port whose secrets share their first 8 characters.
ConfigSharedKey ==
    << Proxy("p1", Server1, 443, SecretPlainA),
       Proxy("p2", Server1, 443, SecretPlainB) >>
\* Two proxies on one server:port with different secret prefixes.
ConfigSharedIpPort ==
    << Proxy("p1", Server1, 443, SecretPlainA),
       Proxy("p2", Server1, 443, SecretPlainC) >>
\* A proxy whose server is a host name.
ConfigHostName ==
    << Proxy("p1", ServerHost, 443, SecretPlainA),
       Proxy("p2", Server2, 443, SecretPlainC) >>
\* One proxy.
ConfigSingle == << Proxy("p1", Server1, 443, SecretPlainA) >>
\* Two proxies whose links carry no secret: parse_mtproto_link gives them the
\* empty secret_hex, which has no variant to probe.
ConfigEmptySecret ==
    << Proxy("p1", Server1, 443, << >>),
       Proxy("p2", Server2, 443, << >>) >>

Configs == {ConfigDistinct, ConfigSharedKey, ConfigSharedIpPort, ConfigHostName}

\* ------------------------------------------------ results of one check
Method(tag, domain) == [tag |-> tag, domain |-> domain]

\* The dict check_one_proxy returns (exc = FALSE), or the exception a task
\* of asyncio.gather ended with (exc = TRUE).
Result(ok, telegram_ok, mode, secret_variant, method, latency_ms, error) ==
    [exc |-> FALSE, ok |-> ok, telegram_ok |-> telegram_ok, mode |-> mode,
     secret_variant |-> secret_variant, method |-> method,
     latency_ms |-> latency_ms, error |-> error]
Raised ==
    [exc |-> TRUE, ok |-> FALSE, telegram_ok |-> FALSE, mode |-> NoStr,
     secret_variant |-> NoStr, method |-> Method("exception", << >>),
     latency_ms |-> None, error |-> "Exception"]

Latencies == 0..MaxLatency

\* Mutant: the decoy probe is made without an extracted domain.
DecoyApplicable_NoDomainCheck(secret_hex) == looks_like_ee_domain_secret(secret_hex)

DecoyApplicable(secret_hex) ==
    /\ looks_like_ee_domain_secret(secret_hex)
    /\ extract_domain_from_ee_secret(secret_hex) # << >>

\* tls_err after step 1 of check_one_proxy when the decoy probe did not succeed.
TlsErrAfterDecoy(secret_hex) ==
    IF ~looks_like_ee_domain_secret(secret_hex) THEN NoStr
    ELSE IF extract_domain_from_ee_secret(secret_hex) = << >>
         THEN "ee_domain_detected_but_domain_parse_failed"
         ELSE "tls_probe_failed"

\* The return at lines 391..399.
DecoyOkResult(secret_hex, lat) ==
    Result(TRUE, FALSE, NoStr, "orig",
           Method("tls_sni", extract_domain_from_ee_secret(secret_hex)), lat, NoStr)
\* The return at lines 418..426.
ConnectedResult(mode_name, variant_name, rpc_ok, lat) ==
    Result(TRUE, rpc_ok, mode_name, variant_name, Method("telethon", << >>), lat,
           IF rpc_ok THEN NoStr ELSE "rpc_error")
\* The return at lines 429..437: error is tls_err or last_err.
FailedResult(tls_err, last_err, lat) ==
    Result(FALSE, FALSE, NoStr, NoStr, Method("telethon", << >>), lat,
           IF tls_err # NoStr THEN tls_err ELSE last_err)

\* The (mode, variant) combinations of the full protocol probe in the order
\* the two nested loops of check_one_proxy visit them.
RECURSIVE CombosFrom(_, _, _)
CombosFrom(secret_list, i, j) ==
    IF i > Len(MTProxyConnections) THEN << >>
    ELSE IF j > Len(secret_list) THEN CombosFrom(secret_list, i + 1, 1)
    ELSE << << MTProxyConnections[i], secret_list[j][1] >> >>
         \o CombosFrom(secret_list, i, j + 1)

\* What a task of check_all can end with for proxy p in the cycle model: an
\* exception, or one of check_one_proxy's three returns.  The cycle model
\* lets the first combination of the protocol probe be the one that connects.
CycleOutcomes(p) ==
    LET sh == Strip(Lower(p.secret_hex))
        combos == CombosFrom(secret_variants(sh), 1, 1)
        last_err == IF combos = << >> THEN NoStr ELSE "connect_error"
    IN  {Raised}
        \cup {FailedResult(TlsErrAfterDecoy(sh), last_err, l) : l \in Latencies}
        \cup (IF DecoyApplicable(sh)
              THEN {DecoyOkResult(sh, l) : l \in Latencies} ELSE {})
        \cup (IF combos = << >> THEN {}
              ELSE {ConnectedResult(combos[1][1], combos[1][2], b, l) :
                        b \in BOOLEAN, l \in Latencies})

\* ------------------------------------------------- check_all (440..460)
\* The conversion of one gathered result.
FixResult(r) ==
    IF r.exc
    THEN Result(FALSE, FALSE, NoStr, NoStr, Method("internal", << >>), 0,
                "Exception: normalized")
    ELSE r
check_all(results) == [i \in DOMAIN results |-> FixResult(results[i])]


\* ------------------------------------------- identities and their order
\* f"{server}:{port}", kept as the pair it is split back into.
proxy_key_ipport(p) == << p.server, p.port >>
\* f"{server}:{port}:{secret_hex[:8]}"
ProxyKey(p) == << p.server, p.port, Prefix(p.secret_hex, 8) >>

\* ipport_sort_key raises ValueError when a label of the server is no integer.
SortKeyRaises(ipport) == \E i \in DOMAIN ipport[1] : ipport[1][i].int = None
ipport_sort_key(ipport) ==
    << [i \in DOMAIN ipport[1] |-> ipport[1][i].int], ipport[2] >>

\* Python's order of two tuples of integers.
RECURSIVE TupleLess(_, _)
TupleLess(a, b) ==
    IF a = << >> THEN b # << >>
    ELSE IF b = << >> THEN FALSE
    ELSE IF a[1] # b[1] THEN a[1] < b[1]
    ELSE TupleLess(Tail(a), Tail(b))
IpPortKeyLess(x, y) ==
    LET kx == ipport_sort_key(x)
        ky == ipport_sort_key(y)
    IN  IF kx[1] # ky[1] THEN TupleLess(kx[1], ky[1]) ELSE kx[2] < ky[2]

\* sorted(set(lst), key=ipport_sort_key), when no key raises.
RECURSIVE SortedSet(_)
SortedSet(S) ==
    IF S = {} THEN << >>
    ELSE LET m == CHOOSE x \in S : \A y \in S \ {x} : ~IpPortKeyLess(y, x)
         IN  << m >> \o SortedSet(S \ {m})
SortedIpPorts(lst) == SortedSet(Range(lst))
SortRaises(lst) == \E i \in DOMAIN lst : SortKeyRaises(lst[i])

\* Mutant: the confirmed entries sort after the unconfirmed ones.
StatusSortKey_ConfirmedLast(st) ==
    << IF st.ok THEN 0 ELSE 1,
       IF st.telegram_ok THEN 1 ELSE 0,
       IF st.latency_ms # None THEN st.latency_ms ELSE 1000000000 >>

\* The key of statuses.sort (line 588), False < True as 0 < 1.
StatusSortKey(st) ==
    << IF st.ok THEN 0 ELSE 1,
       IF st.telegram_ok THEN 0 ELSE 1,
       IF st.latency_ms # None THEN st.latency_ms ELSE 1000000000 >>

\* list.sort is stable: an element goes after those whose key is not greater.
RECURSIVE InsertSorted(_, _)
InsertSorted(sorted, st) ==
    IF sorted = << >> THEN << st >>
    ELSE IF TupleLess(StatusSortKey(st), StatusSortKey(sorted[1]))
         THEN << st >> \o sorted
         ELSE << sorted[1] >> \o InsertSorted(Tail(sorted), st)
RECURSIVE SortStatuses(_)
SortStatuses(sts) ==
    IF sts = << >> THEN << >>
    ELSE InsertSorted(SortStatuses(SubSeq(sts, 1, Len(sts) - 1)), sts[Len(sts)])

\* ------------------------------------------------ State Tracker (480..486)
DictGet(d, k, default) == IF k \in DOMAIN d THEN d[k] ELSE default
DictPut(d, k, v) == [x \in DOMAIN d \cup {k} |-> IF x = k THEN v ELSE d[x]]
EmptyDict == [x \in {} |-> 0]
EmptyState == [fail_streak |-> EmptyDict, last_ok |-> EmptyDict]

secret_preview(secret_hex) ==
    IF Len(secret_hex) >= 14
    THEN Prefix(secret_hex, 8) \o << "..." >> \o Drop(secret_hex, Len(secret_hex) - 6)
    ELSE secret_hex

\* Mutant: the status carries the streak read before the result was counted.
MergeOne_StaleStreak(acc, p, r, now_) ==
    LET key == ProxyKey(p)
        ipport == proxy_key_ipport(p)
        prev_streak == DictGet(acc.state.fail_streak, key, 0)
        fail_streak == IF r.ok THEN DictPut(acc.state.fail_streak, key, 0)
                       ELSE DictPut(acc.state.fail_streak, key, prev_streak + 1)
        last_ok == IF r.ok THEN DictPut(acc.state.last_ok, key, now_)
                   ELSE acc.state.last_ok
        status == [name |-> p.name, server |-> p.server, port |-> p.port,
                   secret_preview |-> secret_preview(p.secret_hex),
                   ok |-> r.ok, telegram_ok |-> r.telegram_ok, mode |-> r.mode,
                   secret_variant |-> r.secret_variant, method |-> r.method,
                   latency_ms |-> r.latency_ms, last_checked |-> now_,
                   last_ok |-> DictGet(last_ok, key, None),
                   fail_streak |-> prev_streak,
                   error |-> r.error]
    IN  [state |-> [fail_streak |-> fail_streak, last_ok |-> last_ok],
         statuses |-> Append(acc.statuses, status),
         alive_list |-> IF r.ok THEN Append(acc.alive_list, ipport) ELSE acc.alive_list,
         dead_list |-> IF r.ok THEN acc.dead_list ELSE Append(acc.dead_list, ipport),
         alive_count |-> IF r.ok THEN acc.alive_count + 1 ELSE acc.alive_count,
         telegram_ok_count |-> IF r.ok /\ r.telegram_ok
                               THEN acc.telegram_ok_count + 1
                               ELSE acc.telegram_ok_count]

\* One pass of the loop over zip(proxies, results), lines 545..584.
MergeOne(acc, p, r, now_) ==
    LET key == ProxyKey(p)
        ipport == proxy_key_ipport(p)
        prev_streak == DictGet(acc.state.fail_streak, key, 0)
        fail_streak == IF r.ok THEN DictPut(acc.state.fail_streak, key, 0)
                       ELSE DictPut(acc.state.fail_streak, key, prev_streak + 1)
        last_ok == IF r.ok THEN DictPut(acc.state.last_ok, key, now_)
                   ELSE acc.state.last_ok
        status == [name |-> p.name, server |-> p.server, port |-> p.port,
                   secret_preview |-> secret_preview(p.secret_hex),
                   ok |-> r.ok, telegram_ok |-> r.telegram_ok, mode |-> r.mode,
                   secret_variant |-> r.secret_variant, method |-> r.method,
                   latency_ms |-> r.latency_ms, last_checked |-> now_,
                   last_ok |-> DictGet(last_ok, key, None),
                   fail_streak |-> DictGet(fail_streak, key, 0),
                   error |-> r.error]
    IN  [state |-> [fail_streak |-> fail_streak, last_ok |-> last_ok],
         statuses |-> Append(acc.statuses, status),
         alive_list |-> IF r.ok THEN Append(acc.alive_list, ipport) ELSE acc.alive_list,
         dead_list |-> IF r.ok THEN acc.dead_list ELSE Append(acc.dead_list, ipport),
         alive_count |-> IF r.ok THEN acc.alive_count + 1 ELSE acc.alive_count,
         telegram_ok_count |-> IF r.ok /\ r.telegram_ok
                               THEN acc.telegram_ok_count + 1
                               ELSE acc.telegram_ok_count]

RECURSIVE MergeUpTo(_, _, _, _, _)
MergeUpTo(state, ps, results, now_, n) ==
    IF n = 0
    THEN [state |-> state, statuses |-> << >>, alive_list |-> << >>,
          dead_list |-> << >>, alive_count |-> 0, telegram_ok_count |-> 0]
    ELSE MergeOne(MergeUpTo(state, ps, results, now_, n - 1), ps[n], results[n], now_)

\* The whole loop; zip stops at the shorter of the two lists.
Merge(state, ps, results, now_) ==
    MergeUpTo(state, ps, results, now_, Min2(Len(ps), Len(results)))

\* ------------------------------------------------------------- snapshots
\* A key a snapshot's meta lacks is None / NoStr here.
Meta(rmin, rmax, next_in, error, total, alive, telegram_ok) ==
    [refresh_min_s |-> rmin, refresh_max_s |-> rmax, next_refresh_in_s |-> next_in,
     timeout_s |-> check_timeout_s, error |-> error, total |-> total,
     alive |-> alive, telegram_ok |-> telegram_ok]

\* main, lines 676..697.
StartupSnapshot(ps, now_, rmin, rmax) ==
    [timestamp |-> now_,
     meta |-> Meta(rmin, rmax, 0, NoStr, Len(ps), 0, 0),
     alive_list |-> << >>, alive_count |-> 0,
     dead_list |-> << >>, dead_count |-> Len(ps),
     proxies |-> << >>]

\* refresher, lines 520..536.
ErrorSnapshot(now_, rmin, rmax, next_in) ==
    [timestamp |-> now_,
     meta |-> Meta(rmin, rmax, next_in, "refresher_failed", None, None, None),
     alive_list |-> << >>, alive_count |-> 0,
     dead_list |-> << >>, dead_count |-> 0,
     proxies |-> << >>]

\* Mutant: the dict is published with its meta counts still unset.
CycleSnapshot_MetaUnset(m, now_, rmin, rmax, next_in) ==
    [timestamp |-> now_,
     meta |-> Meta(rmin, rmax, next_in, NoStr, 0, 0, 0),
     alive_list |-> SortedIpPorts(m.alive_list),
     alive_count |-> m.alive_count,
     dead_list |-> SortedIpPorts(m.dead_list),
     dead_count |-> Len(m.dead_list),
     proxies |-> m.statuses]

\* refresher, lines 586..609, from the merged lists m.
CycleSnapshot(m, now_, rmin, rmax, next_in) ==
    LET statuses == SortStatuses(m.statuses)
    IN  [timestamp |-> now_,
         meta |-> Meta(rmin, rmax, next_in, NoStr, Len(statuses),
                       m.alive_count, m.telegram_ok_count),
         alive_list |-> SortedIpPorts(m.alive_list),
         alive_count |-> m.alive_count,
         dead_list |-> SortedIpPorts(m.dead_list),
         dead_count |-> Len(m.dead_list),
         proxies |-> statuses]

\* The snapshot expression of lines 591..609 raises when a sort key does.
PublishRaises(m) == SortRaises(m.alive_list) \/ SortRaises(m.dead_list)


\* ------------------------- device discovery (mac_ip_server_windows.py)
\* An IPv4 address is its four numbers.
Ip(a, b, c, d) == << a, b, c, d >>
\* ipaddress: is_multicast is 224.0.0.0/4; is_private, for the networks the
\* addresses of a scan lie in.
IsMulticast(ip) == 224 <= ip[1] /\ ip[1] <= 239
IsPrivate(ip) ==
    \/ ip[1] = 10
    \/ ip[1] = 172 /\ 16 <= ip[2] /\ ip[2] <= 31
    \/ ip[1] = 192 /\ ip[2] = 168
    \/ ip[1] = 169 /\ ip[2] = 254
    \/ ip[1] = 127
classify_ip(ip) ==
    IF ip = Ip(255, 255, 255, 255) THEN "broadcast_all"
    ELSE IF ip[1] = 224 /\ ip[2] = 0 /\ ip[3] = 0 THEN "multicast_local"
    ELSE IF IsMulticast(ip)
         THEN (IF ip[1] = 239 THEN "multicast_admin" ELSE "multicast_global")
    ELSE IF ip[4] = 255 THEN "broadcast_subnet"
    ELSE IF IsPrivate(ip) THEN "unicast_private" ELSE "unicast_public"

\* One line of the output of arp -a: its address and its hardware address as
\* printed; a heading or an empty line has neither.
ArpLine(ip, hw) == [ip |-> ip, hw |-> hw]
HeadingLine == ArpLine(<< >>, << >>)
\* The pattern of line 72 finds an address and 11 or more characters of a
\* hardware address.
IsMacChar(c) == IsHexChar(c) \/ c = "-" \/ c = ":"
ArpMatches(line) ==
    /\ line.ip # << >>
    /\ Len(line.hw) >= 11
    /\ \A i \in DOMAIN line.hw : IsMacChar(line.hw[i])
\* m.group(2).lower().replace("-", ":")
NormMac(hw) == [i \in DOMAIN hw |-> IF hw[i] = "-" THEN ":" ELSE LowerChar(hw[i])]

\* Lines 71..82 for one line, on [online_since, current_macs, table].
ParseLine(acc, line, now_) ==
    IF ~ArpMatches(line) THEN acc
    ELSE LET mac == NormMac(line.hw)
             since == IF mac \in DOMAIN acc.online_since
                      THEN acc.online_since
                      ELSE DictPut(acc.online_since, mac, now_)
         IN  [online_since |-> since,
              current_macs |-> acc.current_macs \cup {mac},
              table |-> Append(acc.table,
                               [ip |-> line.ip, mac |-> mac, kind |-> classify_ip(line.ip),
                                seen |-> now_ - since[mac]])]
RECURSIVE ParseLines(_, _, _, _)
ParseLines(acc, out, now_, n) ==
    IF n = 0 THEN acc
    ELSE ParseLine(ParseLines(acc, out, now_, n - 1), out[n], now_)
\* Mutant: the devices that vanished are kept.
PurgeVanished_Keeps(since, current_macs) == since
\* Lines 83..86.
PurgeVanished(since, current_macs) ==
    [mac \in DOMAIN since \cap current_macs |-> since[mac]]
\* parse_arp(now) on the output out of arp -a: the table it returns and
\* online_since as it leaves it.
parse_arp(since, out, now_) ==
    LET acc == ParseLines([online_since |-> since, current_macs |-> {}, table |-> << >>],
                          out, now_, Len(out))
    IN  [online_since |-> PurgeVanished(acc.online_since, acc.current_macs),
         table |-> acc.table]

\* The outputs of arp -a scans are drawn from: two devices, the first
\* printed in two ways and under two addresses, the broadcast entry, an
\* entry that is no hardware address, a heading.
MacOne == << "a", "a", "-", "b", "b", "-", "c", "c", "-", "0", "0", "-", "0", "0", "-", "0", "1" >>
MacOneUpper == << "A", "A", ":", "B", "B", ":", "C", "C", ":", "0", "0", ":", "0", "0", ":", "0", "1" >>
MacTwo == << "a", "a", "-", "b", "b", "-", "c", "c", "-", "0", "0", "-", "0", "0", "-", "0", "2" >>
MacBroadcast == << "f", "f", "-", "f", "f", "-", "f", "f", "-", "f", "f", "-", "f", "f", "-", "f", "f" >>
ArpLines ==
    { HeadingLine,
      ArpLine(Ip(192, 168, 1, 10), MacOne),
      ArpLine(Ip(192, 168, 1, 11), MacOneUpper),
      ArpLine(Ip(8, 8, 8, 8), MacTwo),
      ArpLine(Ip(192, 168, 1, 255), MacBroadcast),
      ArpLine(Ip(192, 168, 1, 12), << "s", "t", "a", "t", "i", "c" >>) }
MaxLines == 2
RECURSIVE ArpOutputs(_)
ArpOutputs(n) ==
    IF n = 0 THEN {<< >>}
    ELSE ArpOutputs(n - 1) \cup
         {Append(o, l) : o \in {x \in ArpOutputs(n - 1) : Len(x) = n - 1}, l \in ArpLines}

\* ------------------------------------------------ refresh window, queries
\* One query parameter as parse_qs gives it: absent, or a text with int(text)
\* (isint = FALSE when int(text) raises ValueError).
Absent == [present |-> FALSE, isint |-> FALSE, val |-> 0, text |-> ""]
IntParam(t, v) == [present |-> TRUE, isint |-> TRUE, val |-> v, text |-> t]
BadParam(t) == [present |-> TRUE, isint |-> FALSE, val |-> 0, text |-> t]
Query(refresh, rmin, rmax, force) ==
    [refresh |-> refresh, refresh_min |-> rmin, refresh_max |-> rmax, force |-> force]

Window(rmin, rmax) == [min |-> rmin, max |-> rmax]

\* do_GET, lines 621..628.
AfterRefresh(q, w) ==
    IF q.refresh.present /\ q.refresh.isint
    THEN LET mx == Max2(5, q.refresh.val)
         IN  Window(Max2(5, mx \div 2), mx)
    ELSE w
\* do_GET, lines 631..635.
AfterRefreshMin(q, w) ==
    IF q.refresh_min.present /\ q.refresh_min.isint
    THEN Window(Max2(1, q.refresh_min.val), w.max) ELSE w
\* do_GET, lines 636..640.
AfterRefreshMax(q, w) ==
    IF q.refresh_max.present /\ q.refresh_max.isint
    THEN Window(w.min, Max2(1, q.refresh_max.val)) ELSE w
\* Mutant: a window upside down is left as it is.
AfterFix_Keeps(w) == w

\* do_GET, lines 642..643.
AfterFix(w) == IF w.max < w.min THEN Window(w.min, w.min) ELSE w
\* do_GET, line 645: qs.get("force", ["0"])[0] == "1"
ForceRequested(q) == q.force.present /\ q.force.text = "1"

\* The requests the handler is driven with where the cycles are followed: a
\* plain GET and a forced refresh.
CycleQueries ==
    { Query(Absent, Absent, Absent, Absent),
      Query(Absent, Absent, Absent, IntParam("1", 1)) }

\* The values a window parameter is given where the window is followed: none,
\* a text that is no integer, integers under and over the floors.
RefreshParams ==
    {Absent, BadParam("abc"), IntParam("-3", -3), IntParam("4", 4),
     IntParam("13", 13), IntParam("40", 40)}
RefreshMinParams ==
    {Absent, BadParam("1.5"), IntParam("-2", -2), IntParam("9", 9),
     IntParam("700", 700)}
RefreshMaxParams ==
    {Absent, BadParam("x"), IntParam("0", 0), IntParam("3", 3), IntParam("650", 650)}
WindowQueries ==
    { Query(r, mn, mx, f) :
        r \in RefreshParams, mn \in RefreshMinParams, mx \in RefreshMaxParams,
        f \in {Absent, IntParam("1", 1)} }

\* The requests the handler is driven with where it is followed line by
\* line: the first writes the window five times and turns it upside down in
\* between, the second forces a refresh.
HandlerQueries ==
    { Query(IntParam("12", 12), IntParam("700", 700), IntParam("650", 650), Absent),
      Query(Absent, Absent, Absent, IntParam("1", 1)) }

\* Mutant: the interval is taken as read, without the two floors.
SleepInterval_AsRead(rmin, rmax) == << rmin, rmax >>

\* compute_next_sleep_s, lines 489..496: the interval random.randint draws from.
SleepInterval(rmin, rmax) ==
    LET a == Max2(1, rmin)
        b == Max2(a, rmax)
    IN  << a, b >>
\* random.randint(a, b), drawing the ends of the interval only.
randint(a, b) == {a, b}
compute_next_sleep_s(rmin, rmax) ==
    randint(SleepInterval(rmin, rmax)[1], SleepInterval(rmin, rmax)[2])

\* int(time.time()) read again: the same second or a later one.
TimeRead(prev) == {prev, prev + 1}

\* ---------------------------------------------------------------- state
VARIABLES
    proxies,              \* the ProxyConfig list of load_config
    snapshot,             \* the published snapshot
    refresh_min_s,
    refresh_max_s,
    next_refresh_in_s,
    force_refresh_event,  \* threading.Event: its flag
    state_tracker,        \* STATE: fail_streak, last_ok
    pc,                   \* where the refresher thread is
    first,
    now,                  \* the last int(time.time()) read
    remaining,            \* seconds left of the timeout of the current wait
    cycles,               \* cycles started
    published,            \* history: snapshots the refresher published
    last_cycle,           \* history: how the latest cycle ended
    raw_results,          \* history: what gather returned in the latest merged cycle
    consec_fail,          \* history: per proxy, its run of failed probes
    pub_last_ok,          \* history: per proxy, the last_ok published latest
    prev_last_ok,         \* history: per proxy, the last_ok published before that
    forced_in_flight,     \* history: the force signal was raised during this cycle
    waits,                \* history: waits begun
    rd_min,               \* compute_next_sleep_s: its local a
    h_pc,                 \* where the request handler is
    h_q,                  \* the query of the request it serves
    h_data,               \* its local data, the copy of the snapshot
    ln_pc,                \* where one call of parse_mtproto_link is
    ln_src,               \* what the secret being normalized was taken from
    ln_bytes,             \* the bytes it encodes, when it was encoded from bytes
    ln_raw,               \* the secret handed to normalize_secret_to_hex_str
    ln_out,               \* what normalize_secret_to_hex_str gave
    sv_pc,                \* where one call of secret_variants is
    sv_in,                \* its secret_hex
    sv_out,               \* the list it returned
    online_since,         \* device discovery: mac -> first_seen_timestamp
    arp_snapshot,         \* device discovery: the published snapshot
    arp_now,              \* device discovery: the clock, in seconds
    arp_present,          \* history: the MACs of the last scan
    arp_ever,             \* history: the MACs of all scans so far
    arp_back,             \* history: the MACs of the last scan that came back
    arp_run_start,        \* history: mac -> time of the first scan of its run
    arp_scans,            \* history: scans made
    cp_pc,                \* where one call of check_one_proxy is
    cp_secret,            \* its p["secret_hex"]
    cp_i,                 \* index of conn_cls in MTProxyConnections
    cp_j,                 \* index of the variant in secret_list
    cp_tls_err,
    cp_last_err,
    cp_full_started,      \* history: line 407 was reached
    cp_log,               \* history: the network attempts made, in order
    cp_result,            \* what the call returned
    cp_hangs,             \* the server of the proxy answers nothing at all
    ga_other,             \* seconds the checks of the other proxies of the cycle take
    ga_returned           \* second at which asyncio.gather returned, None before

refresher_vars ==
    << snapshot, next_refresh_in_s, state_tracker, pc, first, now, remaining, cycles,
       published, last_cycle, raw_results, consec_fail, pub_last_ok, prev_last_ok,
       waits, rd_min >>
handler_vars == << h_pc, h_q, h_data >>
link_vars == << ln_pc, ln_src, ln_bytes, ln_raw, ln_out >>
variant_vars == << sv_pc, sv_in, sv_out >>
arp_vars ==
    << online_since, arp_snapshot, arp_now, arp_present, arp_ever, arp_back,
       arp_run_start,
       arp_scans >>
side_vars == << link_vars, variant_vars, arp_vars >>
probe_vars ==
    << cp_pc, cp_secret, cp_i, cp_j, cp_tls_err, cp_last_err, cp_full_started,
       cp_log, cp_result, cp_hangs, ga_other, ga_returned >>
vars ==
    << proxies, snapshot, refresh_min_s, refresh_max_s, next_refresh_in_s,
       force_refresh_event, state_tracker, pc, first, now, remaining, cycles,
       published, last_cycle, raw_results, consec_fail, pub_last_ok, prev_last_ok,
       forced_in_flight, waits, rd_min, h_pc, h_q, h_data, ln_pc, ln_src, ln_bytes, ln_raw, ln_out,
       cp_pc, cp_secret, cp_i, cp_j, cp_tls_err, cp_last_err,
       cp_full_started, cp_log, cp_result, cp_hangs, ga_other, ga_returned,
       sv_pc, sv_in, sv_out,
       online_since, arp_snapshot, arp_now, arp_present, arp_ever, arp_back,
       arp_run_start,
       arp_scans >>

\* The status published for the proxy named name, in snapshot snap.
StatusOf(snap, name) ==
    snap.proxies[CHOOSE i \in DOMAIN snap.proxies : snap.proxies[i].name = name]
HasStatus(snap, name) == \E i \in DOMAIN snap.proxies : snap.proxies[i].name = name

\* No request is being served.
NoData == [timestamp |-> None]
HandlerIdle ==
    /\ h_pc = "idle"
    /\ h_q = Query(Absent, Absent, Absent, Absent)
    /\ h_data = NoData
\* No link is being parsed.
LinkIdle ==
    /\ ln_pc = "idle"
    /\ ln_src = "none"
    /\ ln_bytes = << >>
    /\ ln_raw = << >>
    /\ ln_out = SecretError
\* No call of secret_variants is under way.
VariantIdle ==
    /\ sv_pc = "idle"
    /\ sv_in = << >>
    /\ sv_out = << >>
\* Device discovery, as the module is loaded: nothing seen, nothing scanned.
ArpIdle ==
    /\ online_since = EmptyDict
    /\ arp_snapshot = [timestamp |-> 0, table |-> << >>]
    /\ arp_now = 0
    /\ arp_present = {}
    /\ arp_ever = {}
    /\ arp_back = {}
    /\ arp_run_start = EmptyDict
    /\ arp_scans = 0

\* main: the configuration is loaded, the startup snapshot is published and
\* the refresher thread is started.
InitWith(configs) ==
    /\ proxies \in configs
    /\ refresh_min_s = DEFAULT_REFRESH_MIN
    /\ refresh_max_s = DEFAULT_REFRESH_MAX
    /\ next_refresh_in_s = 0
    /\ force_refresh_event = FALSE
    /\ state_tracker = EmptyState
    /\ now = 0
    /\ snapshot = StartupSnapshot(proxies, 0, DEFAULT_REFRESH_MIN, DEFAULT_REFRESH_MAX)
    /\ pc = "loop"
    /\ first = TRUE
    /\ remaining = 0
    /\ cycles = 0
    /\ published = 0
    /\ last_cycle = "none"
    /\ raw_results = << >>
    /\ consec_fail = [i \in DOMAIN proxies |-> 0]
    /\ pub_last_ok = [i \in DOMAIN proxies |-> None]
    /\ prev_last_ok = [i \in DOMAIN proxies |-> None]
    /\ forced_in_flight = FALSE
    /\ waits = 0
    /\ rd_min = 0
    /\ HandlerIdle
    /\ LinkIdle
    /\ VariantIdle
    /\ ArpIdle

\* Mutant: the first pass sleeps like every other.
R_First_Sleeps ==
    /\ pc = "loop" /\ first
    /\ first' = FALSE
    /\ UNCHANGED << proxies, snapshot, refresh_min_s, refresh_max_s, next_refresh_in_s,
                    force_refresh_event, state_tracker, pc, now, remaining, cycles,
                    published, last_cycle, raw_results, consec_fail,
                    pub_last_ok, prev_last_ok, forced_in_flight >>
    /\ UNCHANGED << waits, rd_min >>
    /\ UNCHANGED << handler_vars, probe_vars, side_vars >>

\* ------------------------------------------------------- refresher loop
\* Lines 506, 511..513: the first pass of the loop does not wait.
R_First ==
    /\ pc = "loop" /\ first
    /\ next_refresh_in_s' = 0
    /\ first' = FALSE
    /\ pc' = "now"
    /\ UNCHANGED << proxies, snapshot, refresh_min_s, refresh_max_s,
                    force_refresh_event, state_tracker, now, remaining, cycles, published,
                    last_cycle, raw_results, consec_fail,
                    pub_last_ok, prev_last_ok, forced_in_flight >>
    /\ UNCHANGED << waits, rd_min >>
    /\ UNCHANGED << handler_vars, probe_vars, side_vars >>

\* Lines 508, 490: compute_next_sleep_s is called and reads refresh_min_s.
R_ReadMin ==
    /\ pc = "loop" /\ ~first
    /\ (cycles + 1) * Len(proxies) <= MaxProbes
    /\ rd_min' = refresh_min_s
    /\ pc' = "draw"
    /\ UNCHANGED << proxies, snapshot, refresh_min_s, refresh_max_s, next_refresh_in_s,
                    force_refresh_event, state_tracker, first, now, remaining, cycles,
                    published, last_cycle, raw_results, consec_fail,
                    pub_last_ok, prev_last_ok, forced_in_flight, waits >>
    /\ UNCHANGED << handler_vars, probe_vars, side_vars >>

\* Lines 491..496, 508: it reads refresh_max_s and the delay of the next wait
\* is drawn.
R_Draw ==
    /\ pc = "draw"
    /\ next_refresh_in_s' \in compute_next_sleep_s(rd_min, refresh_max_s)
    /\ rd_min' = 0
    /\ pc' = "clear"
    /\ UNCHANGED << proxies, snapshot, refresh_min_s, refresh_max_s,
                    force_refresh_event, state_tracker, first, now, remaining, cycles,
                    published, last_cycle, raw_results, consec_fail,
                    pub_last_ok, prev_last_ok, forced_in_flight, waits >>
    /\ UNCHANGED << handler_vars, probe_vars, side_vars >>

\* Mutant: the wait begins without the signal being cleared.
R_Clear_KeepsSignal ==
    /\ pc = "clear"
    /\ remaining' = next_refresh_in_s
    /\ pc' = "wait"
    /\ waits' = waits + 1
    /\ UNCHANGED << proxies, snapshot, refresh_min_s, refresh_max_s,
                    next_refresh_in_s, force_refresh_event, state_tracker, first, now,
                    cycles, published, last_cycle, raw_results, consec_fail,
                    pub_last_ok, prev_last_ok, forced_in_flight, rd_min >>
    /\ UNCHANGED << handler_vars, probe_vars, side_vars >>

\* Line 509, and the wait of line 510 begins.
R_Clear ==
    /\ pc = "clear"
    /\ force_refresh_event' = FALSE
    /\ remaining' = next_refresh_in_s
    /\ pc' = "wait"
    /\ waits' = waits + 1
    /\ UNCHANGED << proxies, snapshot, refresh_min_s, refresh_max_s,
                    next_refresh_in_s, state_tracker, first, now, cycles, published,
                    last_cycle, raw_results, consec_fail,
                    pub_last_ok, prev_last_ok, forced_in_flight, rd_min >>
    /\ UNCHANGED << handler_vars, probe_vars, side_vars >>

\* Mutant: the wait is a plain sleep, blind to the flag.
EventWaitReturns_TimeoutOnly == remaining = 0

\* Event.wait(timeout) returns once the flag is set or the timeout is over.
EventWaitReturns == force_refresh_event \/ remaining = 0

\* Time passes while the refresher is blocked in the wait.
Tick ==
    /\ pc = "wait"
    /\ ~EventWaitReturns
    /\ \/ remaining' = 0
       \/ /\ remaining > 1
          /\ next_refresh_in_s - remaining < MaxTicks
          /\ remaining' = remaining - 1
    /\ UNCHANGED << proxies, snapshot, refresh_min_s, refresh_max_s,
                    next_refresh_in_s, force_refresh_event, state_tracker, pc, first, now,
                    cycles, published, last_cycle, raw_results, consec_fail,
                    pub_last_ok, prev_last_ok, forced_in_flight >>
    /\ UNCHANGED << waits, rd_min >>
    /\ UNCHANGED << handler_vars, probe_vars, side_vars >>

\* Line 510 returns.
R_Wake ==
    /\ pc = "wait"
    /\ EventWaitReturns
    /\ pc' = "now"
    /\ UNCHANGED << proxies, snapshot, refresh_min_s, refresh_max_s,
                    next_refresh_in_s, force_refresh_event, state_tracker, first, now,
                    remaining, cycles, published, last_cycle, raw_results,
                    consec_fail,
                    pub_last_ok, prev_last_ok, forced_in_flight >>
    /\ UNCHANGED << waits, rd_min >>
    /\ UNCHANGED << handler_vars, probe_vars, side_vars >>

\* Line 515: the cycle starts.
R_Now ==
    /\ pc = "now"
    /\ now' \in TimeRead(now)
    /\ cycles' = cycles + 1
    /\ remaining' = 0
    /\ forced_in_flight' = FALSE
    /\ pc' = "check"
    /\ UNCHANGED << proxies, snapshot, refresh_min_s, refresh_max_s,
                    next_refresh_in_s, force_refresh_event, state_tracker, first,
                    published, last_cycle, raw_results, consec_fail,
                    pub_last_ok, prev_last_ok >>
    /\ UNCHANGED << waits, rd_min >>
    /\ UNCHANGED << handler_vars, probe_vars, side_vars >>

\* Mutant: the error branch forgets the State Tracker.
R_CycleError_ResetsTracker ==
    /\ pc = "check"
    /\ snapshot' = ErrorSnapshot(now, refresh_min_s, refresh_max_s, next_refresh_in_s)
    /\ state_tracker' = EmptyState
    /\ published' = published + 1
    /\ last_cycle' = "error"
    /\ pc' = "loop"
    /\ UNCHANGED << proxies, refresh_min_s, refresh_max_s, next_refresh_in_s,
                    force_refresh_event, first, now, remaining, cycles,
                    raw_results, consec_fail,
                    pub_last_ok, prev_last_ok, forced_in_flight >>
    /\ UNCHANGED << waits, rd_min >>
    /\ UNCHANGED << handler_vars, probe_vars, side_vars >>

\* Lines 518..537: run_asyncio(check_all(...)) raises; the error snapshot is
\* published and the loop continues.
R_CycleError ==
    /\ pc = "check"
    /\ snapshot' = ErrorSnapshot(now, refresh_min_s, refresh_max_s, next_refresh_in_s)
    /\ published' = published + 1
    /\ last_cycle' = "error"
    /\ pc' = "loop"
    /\ UNCHANGED << proxies, refresh_min_s, refresh_max_s, next_refresh_in_s,
                    force_refresh_event, state_tracker, first, now, remaining, cycles,
                    raw_results, consec_fail,
                    pub_last_ok, prev_last_ok, forced_in_flight >>
    /\ UNCHANGED << waits, rd_min >>
    /\ UNCHANGED << handler_vars, probe_vars, side_vars >>

\* CycleOutcomes of every configured proxy.
OutcomeTable ==
    [p \in UNION {Range(c) : c \in Configs \cup {ConfigSingle, ConfigEmptySecret}} |->
        CycleOutcomes(p)]

\* What asyncio.gather can return for the first n proxies: one outcome each,
\* in the order of the proxies.
RECURSIVE GatherUpTo(_, _)
GatherUpTo(ps, n) ==
    IF n = 0 THEN {<< >>}
    ELSE {Append(rs, r) : rs \in GatherUpTo(ps, n - 1), r \in OutcomeTable[ps[n]]}
GatherResults(ps) == GatherUpTo(ps, Len(ps))

\* Lines 518, 539..609: check_all returns; the results are merged into the
\* State Tracker, sorted and published.  An exception of the snapshot
\* expression is caught nowhere: it ends the refresher thread.
R_Cycle ==
    /\ pc = "check"
    /\ \E raw \in GatherResults(proxies) :
        LET results == check_all(raw)
            m == Merge(state_tracker, proxies, results, now)
        IN  /\ state_tracker' = m.state
            /\ raw_results' = raw
            /\ IF PublishRaises(m)
               THEN /\ pc' = "dead"
                    /\ last_cycle' = "crashed"
                    /\ UNCHANGED << snapshot, published, consec_fail, pub_last_ok,
                                    prev_last_ok >>
               ELSE /\ snapshot' = CycleSnapshot(m, now, refresh_min_s, refresh_max_s,
                                                 next_refresh_in_s)
                    /\ published' = published + 1
                    /\ last_cycle' = "published"
                    /\ consec_fail' =
                          [i \in DOMAIN proxies |->
                              IF results[i].ok THEN 0 ELSE consec_fail[i] + 1]
                    /\ pub_last_ok' =
                          [i \in DOMAIN proxies |->
                              StatusOf(snapshot', proxies[i].name).last_ok]
                    /\ prev_last_ok' = pub_last_ok
                    /\ pc' = "loop"
    /\ UNCHANGED << proxies, refresh_min_s, refresh_max_s, next_refresh_in_s,
                    force_refresh_event, first, now, remaining, cycles,
                    forced_in_flight >>
    /\ UNCHANGED << waits, rd_min >>
    /\ UNCHANGED << handler_vars, probe_vars, side_vars >>

\* Mutant: a forced request starts a cycle by itself instead of only raising
\* the signal.
do_GET_StartsCycle(q) ==
    LET w == AfterFix(AfterRefreshMax(q, AfterRefreshMin(q,
                 AfterRefresh(q, Window(refresh_min_s, refresh_max_s)))))
    IN  /\ refresh_min_s' = w.min
        /\ refresh_max_s' = w.max
        /\ force_refresh_event' = (force_refresh_event \/ ForceRequested(q))
        /\ forced_in_flight' = (forced_in_flight \/ (ForceRequested(q) /\ pc = "check"))
        /\ IF ForceRequested(q) /\ pc # "dead"
           THEN pc' = "check" /\ cycles' = cycles + 1
           ELSE UNCHANGED << pc, cycles >>
        /\ UNCHANGED << proxies, snapshot, next_refresh_in_s, state_tracker, first, now,
                        remaining, published, last_cycle, raw_results, consec_fail,
                        pub_last_ok, prev_last_ok >>
        /\ UNCHANGED << waits, rd_min >>
        /\ UNCHANGED << handler_vars, probe_vars, side_vars >>

do_GET(q) ==
    LET w == AfterFix(AfterRefreshMax(q, AfterRefreshMin(q,
                 AfterRefresh(q, Window(refresh_min_s, refresh_max_s)))))
    IN  /\ refresh_min_s' = w.min
        /\ refresh_max_s' = w.max
        /\ force_refresh_event' = (force_refresh_event \/ ForceRequested(q))
        /\ forced_in_flight' = (forced_in_flight \/ (ForceRequested(q) /\ pc = "check"))
        /\ UNCHANGED refresher_vars
        /\ UNCHANGED proxies
        /\ UNCHANGED << handler_vars, probe_vars, side_vars >>

Refresher ==
    \/ R_First \/ R_ReadMin \/ R_Draw \/ R_Clear \/ R_Wake \/ R_Now \/ R_CycleError \/ R_Cycle

NextWith(queries) ==
    \/ Refresher
    \/ Tick
    \/ \E q \in queries : do_GET(q)

\* --------------------------------------------------- do_GET, line by line
\* The steps of do_GET in the order of its lines.
HandlerSteps ==
    << "refresh_max", "refresh_min", "min", "max", "fix", "force", "copy", "send" >>
\* Has the step something to do for query q?  A parameter that is absent or
\* no integer leaves its lines without effect (the except branch passes).
HasEffect(q, step) ==
    CASE step \in {"refresh_max", "refresh_min"} -> q.refresh.present /\ q.refresh.isint
      [] step = "min" -> q.refresh_min.present /\ q.refresh_min.isint
      [] step = "max" -> q.refresh_max.present /\ q.refresh_max.isint
      [] step = "force" -> ForceRequested(q)
      [] OTHER -> TRUE
\* The first step from the k-th on that has something to do for q; the lines
\* before it run with the step that precedes them.
StepFrom(q, k) ==
    HandlerSteps[CHOOSE n \in k..Len(HandlerSteps) :
                    /\ HasEffect(q, HandlerSteps[n])
                    /\ \A i \in k..(n - 1) : ~HasEffect(q, HandlerSteps[i])]
StepAfter(q, step) ==
    StepFrom(q, 1 + CHOOSE n \in DOMAIN HandlerSteps : HandlerSteps[n] = step)

\* Line 617: a request arrives and its query is parsed.
H_Begin(q) ==
    /\ h_pc = "idle"
    /\ h_q' = q
    /\ h_pc' = StepFrom(q, 1)
    /\ UNCHANGED << proxies, refresh_min_s, refresh_max_s, force_refresh_event,
                    forced_in_flight, h_data >>
    /\ UNCHANGED << refresher_vars, probe_vars, side_vars >>

\* Lines 623..625: refresh_max_s = max(5, int(refresh)).
H_RefreshMax ==
    /\ h_pc = "refresh_max"
    /\ refresh_max_s' = AfterRefresh(h_q, Window(refresh_min_s, refresh_max_s)).max
    /\ h_pc' = StepAfter(h_q, "refresh_max")
    /\ UNCHANGED << proxies, refresh_min_s, force_refresh_event, forced_in_flight,
                    h_q, h_data >>
    /\ UNCHANGED << refresher_vars, probe_vars, side_vars >>

\* Line 626: refresh_min_s = max(5, mx // 2).
H_RefreshMin ==
    /\ h_pc = "refresh_min"
    /\ refresh_min_s' = AfterRefresh(h_q, Window(refresh_min_s, refresh_max_s)).min
    /\ h_pc' = StepAfter(h_q, "refresh_min")
    /\ UNCHANGED << proxies, refresh_max_s, force_refresh_event, forced_in_flight,
                    h_q, h_data >>
    /\ UNCHANGED << refresher_vars, probe_vars, side_vars >>

\* Lines 631..635: refresh_min_s = max(1, int(refresh_min)).
H_Min ==
    /\ h_pc = "min"
    /\ refresh_min_s' = AfterRefreshMin(h_q, Window(refresh_min_s, refresh_max_s)).min
    /\ h_pc' = StepAfter(h_q, "min")
    /\ UNCHANGED << proxies, refresh_max_s, force_refresh_event, forced_in_flight,
                    h_q, h_data >>
    /\ UNCHANGED << refresher_vars, probe_vars, side_vars >>

\* Lines 636..640: refresh_max_s = max(1, int(refresh_max)).
H_Max ==
    /\ h_pc = "max"
    /\ refresh_max_s' = AfterRefreshMax(h_q, Window(refresh_min_s, refresh_max_s)).max
    /\ h_pc' = StepAfter(h_q, "max")
    /\ UNCHANGED << proxies, refresh_min_s, force_refresh_event, forced_in_flight,
                    h_q, h_data >>
    /\ UNCHANGED << refresher_vars, probe_vars, side_vars >>

\* Lines 642..643: a window upside down is closed at its minimum.
H_Fix ==
    /\ h_pc = "fix"
    /\ refresh_max_s' = AfterFix(Window(refresh_min_s, refresh_max_s)).max
    /\ h_pc' = StepAfter(h_q, "fix")
    /\ UNCHANGED << proxies, refresh_min_s, force_refresh_event, forced_in_flight,
                    h_q, h_data >>
    /\ UNCHANGED << refresher_vars, probe_vars, side_vars >>

\* Mutant: a forced refresh forgets the State Tracker.
H_Force_ResetsTracker ==
    /\ h_pc = "force"
    /\ force_refresh_event' = TRUE
    /\ forced_in_flight' = (forced_in_flight \/ pc = "check")
    /\ state_tracker' = EmptyState
    /\ h_pc' = StepAfter(h_q, "force")
    /\ UNCHANGED << proxies, refresh_min_s, refresh_max_s, h_q, h_data >>
    /\ UNCHANGED << snapshot, next_refresh_in_s, pc, first, now, remaining, cycles,
                    published, last_cycle, raw_results, consec_fail, pub_last_ok,
                    prev_last_ok, waits, rd_min >>
    /\ UNCHANGED << probe_vars, side_vars >>

\* Lines 645..648: force=1 sets the event.
H_Force ==
    /\ h_pc = "force"
    /\ force_refresh_event' = TRUE
    /\ forced_in_flight' = (forced_in_flight \/ pc = "check")
    /\ h_pc' = StepAfter(h_q, "force")
    /\ UNCHANGED << proxies, refresh_min_s, refresh_max_s, h_q, h_data >>
    /\ UNCHANGED << refresher_vars, probe_vars, side_vars >>

\* Lines 650..651: data = snapshot.copy(), under data_lock.
H_Copy ==
    /\ h_pc = "copy"
    /\ h_data' = snapshot
    /\ h_pc' = "send"
    /\ UNCHANGED << proxies, refresh_min_s, refresh_max_s, force_refresh_event,
                    forced_in_flight, h_q >>
    /\ UNCHANGED << refresher_vars, probe_vars, side_vars >>

\* Lines 653..657: the copy is sent and the request is over.
H_Send ==
    /\ h_pc = "send"
    /\ h_pc' = "idle"
    /\ h_q' = Query(Absent, Absent, Absent, Absent)
    /\ h_data' = NoData
    /\ UNCHANGED << proxies, refresh_min_s, refresh_max_s, force_refresh_event,
                    forced_in_flight >>
    /\ UNCHANGED << refresher_vars, probe_vars, side_vars >>

Handler ==
    \/ H_RefreshMax \/ H_RefreshMin \/ H_Min \/ H_Max \/ H_Fix \/ H_Force
    \/ H_Copy \/ H_Send

\* ------------------------------------------- check_one_proxy, step by step
server_vars ==
    << proxies, snapshot, refresh_min_s, refresh_max_s, next_refresh_in_s,
       force_refresh_event, state_tracker, pc, first, now, remaining, cycles,
       published, last_cycle, raw_results, consec_fail, pub_last_ok, prev_last_ok,
       forced_in_flight, waits, rd_min, handler_vars >>
main_vars == << server_vars, side_vars >>

\* The secrets one call of check_one_proxy is followed for.
ProbeSecrets ==
    {SecretPlainA, SecretPlainLong, SecretDomain, SecretNoDomain, SecretShortEE, << >>}

\* One network attempt and the whole seconds it lasted.
Attempt(kind, mode, variant, connect_ok, rpc_ok, secs) ==
    [kind |-> kind, mode |-> mode, variant |-> variant,
     connect_ok |-> connect_ok, rpc_ok |-> rpc_ok, secs |-> secs]

\* Line 388: the timeout tls_sni_probe is called with.
tls_timeout_s(timeout_s) == Max2(3, Min2(8, timeout_s))
\* The seconds an attempt bounded by timeout t can last: it answers at once,
\* or it hangs until t is over.
Durations(t) == {0, t}
\* The seconds an attempt bounded by timeout t lasts: a server that answers
\* nothing holds it until t is over, any other server answers at once.
AttemptSecs(hangs, t) == IF hangs THEN t ELSE 0
\* The seconds since t0 after the attempts of log.
RECURSIVE Elapsed(_)
Elapsed(log) ==
    IF log = << >> THEN 0 ELSE log[Len(log)].secs + Elapsed(SubSeq(log, 1, Len(log) - 1))

NoResult == Raised

ProbeIdle ==
    /\ cp_pc = "idle"
    /\ cp_secret = << >>
    /\ cp_i = 1
    /\ cp_j = 1
    /\ cp_tls_err = NoStr
    /\ cp_last_err = NoStr
    /\ cp_full_started = FALSE
    /\ cp_log = << >>
    /\ cp_result = NoResult
    /\ cp_hangs = FALSE
    /\ ga_other = 0
    /\ ga_returned = None

\* Lines 380..381: a call begins.
P_Begin ==
    /\ cp_pc = "idle"
    /\ cp_secret' \in {Strip(Lower(sh)) : sh \in ProbeSecrets}
    /\ cp_pc' = "classify"
    /\ cp_hangs' \in BOOLEAN
    /\ ga_other' \in Durations(check_timeout_s)
    /\ UNCHANGED << cp_i, cp_j, cp_tls_err, cp_last_err, cp_full_started, cp_log,
                    cp_result, ga_returned >>
    /\ UNCHANGED main_vars

\* Lines 384..386, 401..404: is the decoy-handshake probe to be made?
P_Classify ==
    /\ cp_pc = "classify"
    /\ IF DecoyApplicable(cp_secret)
       THEN /\ cp_pc' = "decoy"
            /\ UNCHANGED << cp_tls_err, cp_full_started >>
       ELSE /\ cp_tls_err' = TlsErrAfterDecoy(cp_secret)
            /\ cp_full_started' = TRUE
            /\ cp_pc' = "telethon"
    /\ UNCHANGED << cp_secret, cp_i, cp_j, cp_last_err, cp_log, cp_result, cp_hangs,
                    ga_other, ga_returned >>
    /\ UNCHANGED main_vars

\* Lines 387..400: tls_sni_probe returns (ok_tls, err_tls).
P_Decoy ==
    /\ cp_pc = "decoy"
    /\ \E ok_tls \in BOOLEAN, lat \in Latencies :
        /\ cp_hangs => ~ok_tls /\ lat = 0
        /\ cp_log' = Append(cp_log,
               Attempt("decoy", NoStr, "orig", ok_tls, FALSE,
                       AttemptSecs(cp_hangs, tls_timeout_s(check_timeout_s))))
        /\ IF ok_tls
           THEN /\ cp_result' = DecoyOkResult(cp_secret, lat)
                /\ cp_pc' = "done"
                /\ UNCHANGED << cp_tls_err, cp_full_started >>
           ELSE /\ cp_tls_err' = "tls_probe_failed"
                /\ cp_full_started' = TRUE
                /\ cp_pc' = "telethon"
                /\ UNCHANGED cp_result
    /\ UNCHANGED << cp_secret, cp_i, cp_j, cp_last_err, cp_hangs, ga_other,
                    ga_returned >>
    /\ UNCHANGED main_vars

\* Mutant: the loops nested the other way round, variants outside.
NextCombo_VariantMajor(i, j, nv) ==
    IF i < Len(MTProxyConnections) THEN << i + 1, j >>
    ELSE IF j < nv THEN << 1, j + 1 >> ELSE << i + 1, j >>

\* The loop indices after the combination (i, j), nv variants: the inner loop
\* runs over the variants, the outer over the modes.
NextCombo(i, j, nv) == IF j < nv THEN << i, j + 1 >> ELSE << i + 1, 1 >>
\* Is there a combination at (i, j)?
HasCombo(i, j, nv) == i <= Len(MTProxyConnections) /\ j <= nv

\* Lines 411..427: _telethon_try_one_combo on the combination (cp_i, cp_j)
\* returns (connect_ok, rpc_ok, err).
P_Attempt ==
    /\ cp_pc = "telethon"
    /\ LET secret_list == secret_variants(cp_secret)
           mode_name == MTProxyConnections[cp_i]
           variant_name == secret_list[cp_j][1]
       IN  /\ HasCombo(cp_i, cp_j, Len(secret_list))
           /\ \E connect_ok \in BOOLEAN, rpc_ok \in BOOLEAN, lat \in Latencies :
                /\ rpc_ok => connect_ok
                /\ connect_ok \/ lat = 0
                /\ cp_hangs => ~connect_ok
                /\ cp_log' = Append(cp_log,
                       Attempt("combo", mode_name, variant_name, connect_ok, rpc_ok,
                               AttemptSecs(cp_hangs, check_timeout_s)))
                /\ IF connect_ok
                   THEN /\ cp_result' =
                              ConnectedResult(mode_name, variant_name, rpc_ok, lat)
                        /\ cp_pc' = "done"
                        /\ UNCHANGED << cp_i, cp_j, cp_last_err >>
                   ELSE /\ cp_last_err' = "connect_error"
                        /\ cp_i' = NextCombo(cp_i, cp_j, Len(secret_list))[1]
                        /\ cp_j' = NextCombo(cp_i, cp_j, Len(secret_list))[2]
                        /\ UNCHANGED << cp_pc, cp_result >>
    /\ UNCHANGED << cp_secret, cp_tls_err, cp_full_started, cp_hangs, ga_other,
                    ga_returned >>
    /\ UNCHANGED main_vars

\* Line 356: the constructor of the client raises, outside the try of
\* _telethon_try_one_combo; the exception leaves check_one_proxy.
P_Raise ==
    /\ cp_pc = "telethon"
    /\ HasCombo(cp_i, cp_j, Len(secret_variants(cp_secret)))
    /\ cp_result' = Raised
    /\ cp_pc' = "raised"
    /\ UNCHANGED << cp_secret, cp_i, cp_j, cp_tls_err, cp_last_err, cp_full_started,
                    cp_log, cp_hangs, ga_other,
                    ga_returned >>
    /\ UNCHANGED main_vars

\* Lines 429..437: both loops are over.
P_Fail ==
    /\ cp_pc = "telethon"
    /\ ~HasCombo(cp_i, cp_j, Len(secret_variants(cp_secret)))
    /\ \E lat \in Latencies : cp_result' = FailedResult(cp_tls_err, cp_last_err, lat)
    /\ cp_pc' = "done"
    /\ UNCHANGED << cp_secret, cp_i, cp_j, cp_tls_err, cp_last_err, cp_full_started,
                    cp_log, cp_hangs, ga_other,
                    ga_returned >>
    /\ UNCHANGED main_vars

\* Line 442: asyncio.gather returns when the last of its tasks is over.
P_Gather ==
    /\ cp_pc \in {"done", "raised"}
    /\ ga_returned = None
    /\ ga_returned' = Max2(Elapsed(cp_log), ga_other)
    /\ UNCHANGED << cp_pc, cp_secret, cp_i, cp_j, cp_tls_err, cp_last_err,
                    cp_full_started, cp_log, cp_result, cp_hangs, ga_other >>
    /\ UNCHANGED main_vars

ProbeStep ==
    P_Begin \/ P_Classify \/ P_Decoy \/ P_Attempt \/ P_Raise \/ P_Fail \/ P_Gather

\* --------------------------- parse_mtproto_link and the secret, by steps
\* Lines 220..234: a link is parsed up to its secret.
L_Parse(link) ==
    /\ ln_pc = "idle"
    /\ ln_src' = "link"
    /\ ln_bytes' = << >>
    /\ ln_raw' = link.secret
    /\ ln_out' = SecretError
    /\ ln_pc' = IF LinkRefused(link) THEN "raised" ELSE "normalize"
    /\ UNCHANGED << server_vars, probe_vars, variant_vars, arp_vars >>

\* A secret is written down from its bytes, as hex or as padded base64, and
\* handed to normalize_secret_to_hex_str.
L_Encode(b, enc) ==
    /\ ln_pc = "idle"
    /\ ln_src' = enc
    /\ ln_bytes' = b
    /\ ln_raw' = IF enc = "hex" THEN HexStr(b) ELSE B64Encode(b)
    /\ ln_out' = SecretError
    /\ ln_pc' = "normalize"
    /\ UNCHANGED << server_vars, probe_vars, variant_vars, arp_vars >>

\* Line 236, lines 128..151.
L_Normalize ==
    /\ ln_pc = "normalize"
    /\ ln_out' = normalize_secret_to_hex_str(ln_raw)
    /\ ln_pc' = IF ln_out'.ok THEN "returned" ELSE "raised"
    /\ UNCHANGED << ln_src, ln_bytes, ln_raw >>
    /\ UNCHANGED << server_vars, probe_vars, variant_vars, arp_vars >>

\* The call is over; the next one starts afresh.
L_Done ==
    /\ ln_pc \in {"returned", "raised"}
    /\ ln_pc' = "idle"
    /\ ln_src' = "none"
    /\ ln_bytes' = << >>
    /\ ln_raw' = << >>
    /\ ln_out' = SecretError
    /\ UNCHANGED << server_vars, probe_vars, variant_vars, arp_vars >>

\* ------------------------------------------------ secret_variants, called
\* The secrets secret_variants is called with: a marker or none, in either
\* case, a tail that is short, as long as a plain secret or longer, of hex
\* digits or not, with or without whitespace around.
VariantMarkers == { << >>, << "e", "e" >>, << "d", "d" >>, << "E", "e" >>, << "D", "D" >>,
                    << "a", "b" >>, << "e" >> }
VariantTailLens == {0, 1, 2, 3, 32, 33, 34}
VariantTailChars == {"1", "e", "F", "z"}
VariantInputs ==
    { pad \o m \o Rep(<< c >>, n) \o pad :
        m \in VariantMarkers, n \in VariantTailLens, c \in VariantTailChars,
        pad \in { << >>, << " " >> } }

V_Call(secret_hex) ==
    /\ sv_pc = "idle"
    /\ sv_in' = secret_hex
    /\ sv_out' = << >>
    /\ sv_pc' = "called"
    /\ UNCHANGED << server_vars, probe_vars, link_vars, arp_vars >>

\* Lines 190..216.
V_Return ==
    /\ sv_pc = "called"
    /\ sv_out' = secret_variants(sv_in)
    /\ sv_pc' = "returned"
    /\ UNCHANGED sv_in
    /\ UNCHANGED << server_vars, probe_vars, link_vars, arp_vars >>

V_Done ==
    /\ sv_pc = "returned"
    /\ sv_pc' = "idle"
    /\ sv_in' = << >>
    /\ sv_out' = << >>
    /\ UNCHANGED << server_vars, probe_vars, link_vars, arp_vars >>

\* ------------------------------------------- device discovery, refresher
MaxScans == 3
MaxGap == 2
\* refresher, lines 91..99: one pass of the loop. The clock has moved on by
\* gap seconds since the pass before; arp -a prints out.
A_Scan(out, gap) ==
    /\ arp_scans < MaxScans
    /\ arp_now' = arp_now + gap
    /\ LET parsed == parse_arp(online_since, out, arp_now')
           present == {NormMac(out[i].hw) : i \in {j \in DOMAIN out : ArpMatches(out[j])}}
       IN  /\ online_since' = parsed.online_since
           /\ arp_snapshot' = [timestamp |-> arp_now', table |-> parsed.table]
           /\ arp_present' = present
           /\ arp_ever' = arp_ever \cup present
           /\ arp_back' = (present \cap arp_ever) \ arp_present
           /\ arp_run_start' =
                 [mac \in present |->
                     IF mac \in arp_present THEN arp_run_start[mac] ELSE arp_now']
    /\ arp_scans' = arp_scans + 1
    /\ UNCHANGED << server_vars, probe_vars, link_vars, variant_vars >>

\* ------------------------------------------------------- specifications
\* The refresher and the handler, over every configuration.
Init == InitWith(Configs) /\ ProbeIdle
Next == NextWith(CycleQueries)
Spec == Init /\ [][Next]_vars

\* The refresher and the handler over the configuration of one proxy; the
\* refresher thread is scheduled again and again.
WaitInit == InitWith({ConfigSingle}) /\ ProbeIdle
FairSpec == WaitInit /\ [][Next]_vars /\ WF_vars(Refresher)

\* The refresher and the handler line by line, the requests changing the
\* refresh window.
HandlerInit == InitWith({ConfigEmptySecret}) /\ ProbeIdle
HandlerNext ==
    \/ Refresher
    \/ Tick
    \/ \E q \in HandlerQueries : H_Begin(q)
    \/ Handler
HandlerSpec == HandlerInit /\ [][HandlerNext]_vars

\* The handler alone, serving one request after the other, over the window
\* parameters.
WindowInit == InitWith({ConfigSingle}) /\ ProbeIdle
WindowNext ==
    \/ \E q \in WindowQueries : H_Begin(q)
    \/ Handler
WindowSpec == WindowInit /\ [][WindowNext]_vars

\* One call of check_one_proxy.
\* Links are parsed and secrets normalized, nothing else runs.
MaxBytes == 3
LinkInit == InitWith({ConfigSingle}) /\ ProbeIdle
LinkNext ==
    \/ \E link \in Links : L_Parse(link)
    \/ \E b \in ByteSeqs(MaxBytes), enc \in {"hex", "base64"} : L_Encode(b, enc)
    \/ L_Normalize
    \/ L_Done
LinkSpec == LinkInit /\ [][LinkNext]_vars

\* Only secret_variants is called.
VariantInit == InitWith({ConfigSingle}) /\ ProbeIdle
VariantNext ==
    \/ \E secret_hex \in VariantInputs : V_Call(secret_hex)
    \/ V_Return
    \/ V_Done
VariantSpec == VariantInit /\ [][VariantNext]_vars

\* The device-discovery server scans, nothing else runs.
ArpInit == InitWith({ConfigSingle}) /\ ProbeIdle
ArpNext == \E out \in ArpOutputs(MaxLines), gap \in 1..MaxGap : A_Scan(out, gap)
ArpSpec == ArpInit /\ [][ArpNext]_vars

ProbeInit == InitWith({ConfigSingle}) /\ ProbeIdle
ProbeNext == ProbeStep
ProbeSpec == ProbeInit /\ [][ProbeNext]_vars


\* ================================================================ claims
\* The latest cycle merged its results and published them: the snapshot is
\* that cycle's.
CyclePublished == last_cycle = "published"
\* The results of the latest merged cycle, as check_all returned them.
LastResults == check_all(raw_results)

\* C1: in the snapshot a cycle publishes, every proxy's fail_streak is the
\* number of consecutive cycles, ending with that one, in which the proxy's
\* own probe failed (0 when it succeeded), whatever keys the proxies share.
C1_FailStreakIsOwnRun ==
    CyclePublished =>
        \A i \in DOMAIN proxies :
            StatusOf(snapshot, proxies[i].name).fail_streak = consec_fail[i]

\* C2: in the snapshot a cycle publishes, a proxy whose own probe succeeded
\* has last_ok equal to the cycle's timestamp, and a proxy whose probe failed
\* has the last_ok published for it one cycle before (None if there is none).
C2_LastOkOnlyOnOwnSuccess ==
    CyclePublished =>
        \A i \in DOMAIN proxies :
            LET st == StatusOf(snapshot, proxies[i].name)
            IN  IF LastResults[i].ok
                THEN st.last_ok = snapshot.timestamp
                ELSE st.last_ok = prev_last_ok[i]

\* C3: no exception leaves refresher(): the thread never ends, and outside a
\* cycle every cycle started has published its snapshot.
C3_RefresherNeverStops ==
    /\ pc # "dead"
    /\ pc # "check" => published = cycles

\* C4: a cycle in which the check of a proxy raised publishes one status per
\* configured proxy; the raising proxy is reported ok = false with the
\* normalized error, every other proxy with the ok, telegram_ok, mode and
\* secret_variant of its own probe.
C4_RaisingProxyIsolated ==
    (last_cycle \in {"published", "crashed"}
        /\ \E i \in DOMAIN raw_results : raw_results[i].exc) =>
        /\ CyclePublished
        /\ Len(snapshot.proxies) = Len(proxies)
        /\ \A i \in DOMAIN proxies :
            /\ HasStatus(snapshot, proxies[i].name)
            /\ LET st == StatusOf(snapshot, proxies[i].name)
                   r == raw_results[i]
               IN  IF r.exc
                   THEN ~st.ok /\ ~st.telegram_ok /\ st.error = "Exception: normalized"
                   ELSE /\ st.ok = r.ok
                        /\ st.telegram_ok = r.telegram_ok
                        /\ st.mode = r.mode
                        /\ st.secret_variant = r.secret_variant

\* C5: in every snapshot a reader can obtain, alive_count is the length of
\* alive_list and dead_count the length of dead_list.
C5_CountsAreListLengths ==
    /\ snapshot.alive_count = Len(snapshot.alive_list)
    /\ snapshot.dead_count = Len(snapshot.dead_list)

\* C6: in the proxies list of a published snapshot every reachable entry
\* precedes every unreachable one, among the reachable every confirmed one
\* precedes every unconfirmed one, and within one (ok, telegram_ok) class the
\* latencies do not decrease.
InOrder(a, b) ==
    /\ b.ok => a.ok
    /\ (a.ok /\ b.ok /\ b.telegram_ok) => a.telegram_ok
    /\ (a.ok = b.ok /\ a.telegram_ok = b.telegram_ok) => a.latency_ms <= b.latency_ms
C6_ProxiesSorted ==
    \A i, j \in DOMAIN snapshot.proxies :
        i < j => InOrder(snapshot.proxies[i], snapshot.proxies[j])
\* The first configured proxy failed and the last one was confirmed: the
\* published list holds one entry of each class, in the reverse order.
C6_Witness ==
    /\ CyclePublished
    /\ Len(snapshot.proxies) = 3
    /\ snapshot.proxies[1].name = "p3" /\ snapshot.proxies[1].telegram_ok
    /\ snapshot.proxies[2].name = "p2" /\ snapshot.proxies[2].ok
    /\ ~snapshot.proxies[2].telegram_ok
    /\ snapshot.proxies[3].name = "p1" /\ ~snapshot.proxies[3].ok

\* The combinations of a secret's protocol probe in mode-major order: the
\* k-th is mode (k-1) \div nv and variant (k-1) % nv, counted from 0.
ModeMajor(secret_hex, k) ==
    LET vs == secret_variants(secret_hex)
    IN  << MTProxyConnections[((k - 1) \div Len(vs)) + 1], vs[((k - 1) % Len(vs)) + 1][1] >>
ComboCount(secret_hex) == Len(MTProxyConnections) * Len(secret_variants(secret_hex))
Combos(log) == SelectSeq(log, LAMBDA a : a.kind = "combo")

\* C7: the combinations of the full protocol probe are attempted one at a
\* time in mode-major order; the first whose session establishment succeeds
\* ends the probe, whether its round trip succeeds or not, and the reported
\* mode, secret_variant and telegram_ok are that combination's.
C7_FirstConnectWins ==
    LET at == Combos(cp_log)
        n == Len(at)
    IN  /\ \A k \in 1..n :
              << at[k].mode, at[k].variant >> = ModeMajor(cp_secret, k)
        /\ \A k \in 1..n : k < n => ~at[k].connect_ok
        /\ (n > 0 /\ at[n].connect_ok) =>
              /\ cp_pc = "done"
              /\ cp_result.ok
              /\ cp_result.mode = at[n].mode
              /\ cp_result.secret_variant = at[n].variant
              /\ cp_result.telegram_ok = at[n].rpc_ok
        /\ (cp_pc = "done" /\ cp_result.method.tag = "telethon") =>
              IF cp_result.ok THEN n > 0 /\ at[n].connect_ok
              ELSE n = ComboCount(cp_secret) /\ \A k \in 1..n : ~at[k].connect_ok
\* The fifth combination (second mode, second variant of three) connected and
\* its round trip failed; combinations are left untried.
C7_Witness ==
    /\ cp_pc = "done"
    /\ Len(Combos(cp_log)) = 5
    /\ ComboCount(cp_secret) = 9
    /\ cp_result.ok /\ ~cp_result.telegram_ok
    /\ cp_result.mode = MTProxyConnections[2]
    /\ cp_result.secret_variant = "strip_prefix"

\* C8: the decoy-handshake probe is the first attempt of a check and is made
\* only for a domain-flavored secret with an extracted domain; the full
\* protocol probe is started exactly when the decoy probe was inapplicable or
\* failed; a successful decoy probe ends the check with ok = true,
\* telegram_ok = false and no combination attempted.
C8_DecoyFirst ==
    LET applicable == /\ looks_like_ee_domain_secret(cp_secret)
                      /\ extract_domain_from_ee_secret(cp_secret) # << >>
        decoy_made == cp_log # << >> /\ cp_log[1].kind = "decoy"
        decoy_ok == decoy_made /\ cp_log[1].connect_ok
    IN  /\ \A k \in DOMAIN cp_log : cp_log[k].kind = "decoy" => k = 1 /\ applicable
        /\ cp_full_started => (~applicable \/ (decoy_made /\ ~decoy_ok))
        /\ Combos(cp_log) # << >> => cp_full_started
        /\ cp_pc \in {"done", "raised", "telethon"} =>
              (cp_full_started <=> (~applicable \/ (decoy_made /\ ~decoy_ok)))
        /\ decoy_ok =>
              /\ cp_pc = "done"
              /\ Combos(cp_log) = << >>
              /\ cp_result.ok /\ ~cp_result.telegram_ok
\* The decoy probe of a domain-flavored secret succeeded.
C8_Witness ==
    /\ cp_pc = "done"
    /\ cp_secret = SecretDomain
    /\ Len(cp_log) = 1 /\ cp_log[1].kind = "decoy" /\ cp_log[1].connect_ok
    /\ cp_result.method.tag = "tls_sni"

\* C9: cycles do not overlap and the force signal does not touch a cycle in
\* flight: at most one cycle is started and not yet published, a cycle starts
\* only after every earlier one has published, and a step that raises the
\* signal during a cycle leaves the cycle, the snapshot and the State Tracker
\* as they are.
C9_NoOverlapNoAbort ==
    /\ [](cycles - published \in {0, 1})
    /\ [][cycles' # cycles => (cycles' = cycles + 1 /\ published = cycles)]_vars
    /\ [][(pc = "check" /\ ~force_refresh_event /\ force_refresh_event') =>
            (pc' = "check" /\ UNCHANGED << cycles, published, snapshot, state_tracker,
                                           now, last_cycle >>)]_vars
\* The force signal was raised during a cycle, which then published.
C9_Witness ==
    /\ forced_in_flight
    /\ pc = "loop"
    /\ CyclePublished
    /\ published = cycles

\* C10: once the force signal is raised while the refresher waits, none of
\* the rest of the drawn delay elapses: the wait returns and the next cycle
\* starts.
C10_ForceEndsWait ==
    /\ [][(pc = "wait" /\ force_refresh_event) =>
            (remaining' = remaining /\ pc' \in {"wait", "now"})]_vars
    /\ (pc = "wait" /\ force_refresh_event) ~> (pc = "check")
\* A wait returned with part of its delay left: the cycle is about to start.
C10_Witness ==
    /\ pc = "now"
    /\ force_refresh_event
    /\ remaining > 0
    /\ remaining <= next_refresh_in_s

\* The timeout that bounds attempt a: a hung decoy handshake fails after
\* tls_timeout_s, a hung connect of a combination after the check timeout.
AttemptTimeout(a) ==
    IF a.kind = "decoy" THEN tls_timeout_s(check_timeout_s) ELSE check_timeout_s
\* Attempts were made and each of them hung until its timeout.
EveryAttemptHung(log) ==
    /\ log # << >>
    /\ \A k \in DOMAIN log : ~log[k].connect_ok /\ log[k].secs = AttemptTimeout(log[k])
\* The "small constant" allowed on top of the check timeout: half of it.
Slack == check_timeout_s \div 2

\* C11: when every attempt of a proxy hangs until its timeout, the proxy is
\* reported failed and asyncio.gather hands the results of the cycle (this
\* proxy's and the other proxies') to the refresher within the check timeout
\* plus a small constant.
C11_HungProxyBounded ==
    (ga_returned # None /\ cp_pc = "done" /\ EveryAttemptHung(cp_log)) =>
        /\ ~cp_result.ok
        /\ ga_returned <= check_timeout_s + Slack

\* The snapshot of the error branch: an error in meta and nothing else.
IsErrorSnapshot(snap) ==
    /\ snap.meta.error # NoStr
    /\ snap.alive_list = << >> /\ snap.alive_count = 0
    /\ snap.dead_list = << >> /\ snap.dead_count = 0
    /\ snap.proxies = << >>

\* C13: a cycle whose orchestration raises publishes an error snapshot (error
\* in meta, empty lists, zero counts, no statuses) and leaves the State
\* Tracker as it was; the next cycle starts only after a wait begun after it,
\* and that wait does begin.
C13_ErrorCycle ==
    /\ [](last_cycle = "error" => IsErrorSnapshot(snapshot))
    /\ [][(pc = "check" /\ pc' # "check" /\ last_cycle' = "error") =>
            /\ published' = published + 1
            /\ IsErrorSnapshot(snapshot')
            /\ state_tracker' = state_tracker
            /\ pc' = "loop" /\ ~first']_vars
    /\ [][(last_cycle = "error" /\ cycles' # cycles) =>
            (waits = cycles /\ next_refresh_in_s >= 1)]_vars
    /\ (last_cycle = "error" /\ pc = "loop" /\ cycles < MaxProbes) ~> (pc = "wait")
\* After a cycle that filled the State Tracker a cycle failed as a whole, and
\* the refresher waits again.
C13_Witness ==
    /\ last_cycle = "error"
    /\ pc = "wait"
    /\ state_tracker # EmptyState
    /\ IsErrorSnapshot(snapshot)

\* C14: the first pass of the loop goes straight to the cycle, without a wait
\* and leaving the force signal as it is; the snapshot of the first cycle
\* reports next_refresh_in_s = 0; every later cycle starts after exactly one
\* more wait.
C14_FirstCycleNoWait ==
    /\ [](pc = "check" => waits = cycles - 1)
    /\ []((cycles = 1 /\ published = 1) => snapshot.meta.next_refresh_in_s = 0)
    /\ [][(first /\ ~first') =>
            (pc' = "now" /\ waits' = 0 /\ next_refresh_in_s' = 0
                /\ force_refresh_event' = force_refresh_event)]_vars
    /\ [][(cycles = 0 /\ force_refresh_event) => force_refresh_event']_vars
\* The second cycle runs after one wait; the snapshot is still the first
\* cycle's.  The signal raised before the first cycle was still raised after it.
C14_Witness ==
    /\ cycles = 2 /\ pc = "check" /\ waits = 1
    /\ published = 1
    /\ snapshot.meta.next_refresh_in_s = 0
    /\ snapshot.meta.error = NoStr /\ snapshot.proxies # << >>

OnlyRefresh(q) ==
    /\ q.refresh.present /\ q.refresh.isint
    /\ ~q.refresh_min.present /\ ~q.refresh_max.present

\* C15: between requests the refresh window satisfies
\* 1 <= refresh_min_s <= refresh_max_s, whatever the parameters of the
\* requests served were; a request with refresh=N alone leaves
\* refresh_max_s = max(5, N) and refresh_min_s = max(5, N // 2).
C15_WindowWellFormed ==
    /\ [](h_pc = "idle" => (1 <= refresh_min_s /\ refresh_min_s <= refresh_max_s))
    /\ [][(h_pc # "idle" /\ h_pc' = "idle" /\ OnlyRefresh(h_q)) =>
            /\ refresh_max_s' = Max2(5, h_q.refresh.val)
            /\ refresh_min_s' = Max2(5, h_q.refresh.val \div 2)]_vars
\* A request with refresh_min=-2 and refresh_max=0 was served: both floors
\* acted.
C15_Witness ==
    /\ h_pc = "send"
    /\ h_q.refresh_min.val = -2 /\ h_q.refresh_max.val = 0
    /\ h_q.refresh_min.isint /\ h_q.refresh_max.isint
    /\ refresh_min_s = 1 /\ refresh_max_s = 1

\* C19: the delay drawn lies between lo = max(1, a) and hi = max(lo, b),
\* a and b being refresh_min_s and refresh_max_s as compute_next_sleep_s
\* read them, one after the other, while requests rewrite the window; so no
\* wait is shorter than one second.
C19_DelayWithinWindow ==
    /\ [][(pc = "loop" /\ pc' = "draw") => rd_min' = refresh_min_s]_vars
    /\ [][(pc = "draw" /\ pc' # "draw") =>
            LET lo == Max2(1, rd_min)
                hi == Max2(lo, refresh_max_s)
            IN  lo <= next_refresh_in_s' /\ next_refresh_in_s' <= hi]_vars
    /\ [](pc \in {"clear", "wait"} => next_refresh_in_s >= 1)
\* The delay was drawn while a request had the window upside down: the
\* minimum read is over the maximum read.
C19_Witness ==
    /\ pc = "clear"
    /\ h_pc = "refresh_min"
    /\ refresh_max_s < refresh_min_s
    /\ next_refresh_in_s = refresh_min_s

\* C20: a step of the request handler changes nothing of the shared state but
\* the force signal and the refresh window: the snapshot, the State Tracker
\* and all the refresher keeps stay as they are; the snapshot changes only in
\* a publishing step of the refresher.
C20_HandlerFrame ==
    /\ [][h_pc' # h_pc =>
            UNCHANGED << snapshot, state_tracker, next_refresh_in_s, proxies, pc, first,
                         now, remaining, cycles, published, last_cycle >>]_vars
    /\ [][snapshot' # snapshot =>
            (h_pc' = h_pc /\ pc = "check" /\ published' = published + 1)]_vars
    /\ [][state_tracker' # state_tracker => (h_pc' = h_pc /\ pc = "check")]_vars
\* A request that rewrote the window and one that forced a refresh were
\* served after a cycle had filled the State Tracker and published.
C20_Witness ==
    /\ h_pc = "send"
    /\ ForceRequested(h_q)
    /\ force_refresh_event
    /\ refresh_max_s = 700
    /\ published >= 1
    /\ state_tracker # EmptyState
    /\ snapshot.proxies # << >>

\* A snapshot that is one writer's work: the startup snapshot, an error
\* snapshot, or the snapshot of one cycle, whose statuses all carry its
\* timestamp and whose counts are those of its statuses.
IsWhole(snap) ==
    \/ snap = StartupSnapshot(proxies, snap.timestamp, snap.meta.refresh_min_s,
                              snap.meta.refresh_max_s)
    \/ snap = ErrorSnapshot(snap.timestamp, snap.meta.refresh_min_s,
                            snap.meta.refresh_max_s, snap.meta.next_refresh_in_s)
    \/ /\ snap.meta.error = NoStr
       /\ Len(snap.proxies) = Len(proxies)
       /\ snap.meta.total = Len(snap.proxies)
       /\ \A i \in DOMAIN snap.proxies : snap.proxies[i].last_checked = snap.timestamp
       /\ snap.meta.alive = snap.alive_count
       /\ snap.alive_count = Cardinality({i \in DOMAIN snap.proxies : snap.proxies[i].ok})
       /\ snap.meta.telegram_ok =
             Cardinality({i \in DOMAIN snap.proxies : snap.proxies[i].telegram_ok})

\* C12: the snapshot is always one writer's whole work and changes only in
\* one publishing step of the refresher; the copy a request takes is the
\* whole snapshot of that moment, and it stays what it is, whatever the
\* refresher publishes, until the request is over.
C12_SnapshotAtomic ==
    /\ [](IsWhole(snapshot))
    /\ [](h_data # NoData => IsWhole(h_data))
    /\ [][snapshot' # snapshot =>
            (pc = "check" /\ published' = published + 1 /\ h_data' = h_data)]_vars
    /\ [][h_data' # h_data =>
            \/ (h_pc = "copy" /\ h_data' = snapshot /\ snapshot' = snapshot)
            \/ (h_pc = "send" /\ h_data' = NoData)]_vars
\* A request holds its copy of the first cycle's snapshot while the second
\* cycle has published.
C12_Witness ==
    /\ h_pc = "send"
    /\ h_data # snapshot
    /\ h_data.proxies # << >>
    /\ snapshot.proxies # << >>
    /\ published = 2

\* Padded base64, read strictly: a multiple of four characters, all of the
\* alphabet but for at most two '=' at the end.
IsPaddedBase64(t) ==
    /\ Len(t) % 4 = 0
    /\ TrailingPads(t) <= 2
    /\ \A i \in DOMAIN BeforePads(t) : IsB64Char(t[i])

\* C16: a link whose secret is absent or empty is refused, and a secret that
\* is neither hex nor padded base64 makes the normalization fail.
C16_BadSecretRefused ==
    ln_pc \in {"returned", "raised"} =>
        /\ (ln_src = "link" /\ ln_raw = << >>) => ln_pc = "raised"
        /\ (/\ ~FromHexOK(CleanSecret(ln_raw))
            /\ ~IsPaddedBase64(PadSecret(CleanSecret(ln_raw)))) => ln_pc = "raised"

\* C17: the hex and the padded base64 of the same bytes both normalize to
\* the lowercase hex of these bytes.
C17_HexAndBase64Agree ==
    (ln_pc \in {"returned", "raised"} /\ ln_src \in {"hex", "base64"}) =>
        ln_out = SecretHex(HexStr(ln_bytes))

\* The candidates of a secret s, in order: s itself; s without its marker,
\* when s has four characters or more and begins with one of the two
\* markers; s with its marker swapped, when s has more than 34 characters.
HasMarker(s) == StartsWith(s, << "e", "e" >>) \/ StartsWith(s, << "d", "d" >>)
SwappedMarker(s) ==
    (IF StartsWith(s, << "e", "e" >>) THEN << "d", "d" >> ELSE << "e", "e" >>) \o Drop(s, 2)
Candidates(s) ==
    << s >>
    \o (IF Len(s) >= 4 /\ HasMarker(s) THEN << Drop(s, 2) >> ELSE << >>)
    \o (IF Len(s) > 34 /\ HasMarker(s) THEN << SwappedMarker(s) >> ELSE << >>)
IsLowerHexEven(v) ==
    /\ v # << >>
    /\ Len(v) % 2 = 0
    /\ \A i \in DOMAIN v : v[i] \in Range(HexDigits)
\* The candidates that are kept: valid, and not the value of an earlier one.
KeptCandidates(c) ==
    { i \in DOMAIN c : IsLowerHexEven(c[i]) /\ \A j \in 1..(i - 1) : c[j] # c[i] }
RECURSIVE KeptInOrder(_, _)
KeptInOrder(c, i) ==
    IF i > Len(c) THEN << >>
    ELSE (IF i \in KeptCandidates(c) THEN << c[i] >> ELSE << >>) \o KeptInOrder(c, i + 1)

\* C21: the values secret_variants returns are non-empty, of even length, of
\* lowercase hex digits and pairwise distinct; they are the candidates of the
\* lowercased, stripped secret (original, marker-stripped, marker-swapped)
\* that are valid and repeat no earlier one, in the order of the candidates.
C21_VariantsValidOrdered ==
    sv_pc = "returned" =>
        /\ \A i \in DOMAIN sv_out : IsLowerHexEven(sv_out[i][2])
        /\ \A i, j \in DOMAIN sv_out : i # j => sv_out[i][2] # sv_out[j][2]
        /\ [i \in DOMAIN sv_out |-> sv_out[i][2]]
              = KeptInOrder(Candidates(Strip(Lower(sv_in))), 1)
\* An uppercase domain-marked secret of 36 digits with whitespace around gave
\* its three variants.
C21_Witness ==
    /\ sv_pc = "returned"
    /\ Len(sv_in) = 38
    /\ sv_in[2] = "E"
    /\ Len(sv_out) = 3
    /\ sv_out[2][1] = "strip_prefix"
    /\ sv_out[3][1] = "ee_to_dd"

\* C22: in every status of the published snapshot, telegram_ok implies ok;
\* ok is true exactly when fail_streak is 0, so an unreachable proxy has a
\* fail_streak of 1 or more; a reachable proxy has last_ok equal to
\* last_checked.
C22_StatusConsistent ==
    \A i \in DOMAIN snapshot.proxies :
        LET st == snapshot.proxies[i]
        IN  /\ st.telegram_ok => st.ok
            /\ st.ok <=> st.fail_streak = 0
            /\ ~st.ok => st.fail_streak >= 1
            /\ st.ok => st.last_ok = st.last_checked
\* The second cycle published a proxy confirmed by Telegram next to one that
\* failed twice in a row.
C22_Witness ==
    /\ published = 2
    /\ \E i \in DOMAIN snapshot.proxies :
          snapshot.proxies[i].ok /\ snapshot.proxies[i].telegram_ok
    /\ \E i \in DOMAIN snapshot.proxies :
          ~snapshot.proxies[i].ok /\ snapshot.proxies[i].fail_streak = 2

\* C23: in the snapshot a successful cycle publishes, alive_list and
\* dead_list have no identity in common, and together they hold exactly the
\* server:port identities of the configured proxies.
C23_AliveDeadPartition ==
    CyclePublished =>
        /\ Range(snapshot.alive_list) \cap Range(snapshot.dead_list) = {}
        /\ Range(snapshot.alive_list) \cup Range(snapshot.dead_list)
              = {proxy_key_ipport(proxies[i]) : i \in DOMAIN proxies}

\* C24: in the published snapshot meta.refresh_min_s is at most
\* meta.refresh_max_s, whenever the refresher publishes while a request is
\* rewriting the refresh window.
C24_MetaWindowOrdered ==
    snapshot.meta.refresh_min_s <= snapshot.meta.refresh_max_s

\* C25: after each scan the keys of online_since are the MACs of that scan;
\* the seen value of every entry is the time from the first scan of the
\* MAC's present run of scans to this scan; a MAC that was missing from the
\* scan before starts again from 0.
C25_SeenSinceRunStart ==
    /\ [](arp_scans >= 1 => DOMAIN online_since = arp_present)
    /\ [](\A i \in DOMAIN arp_snapshot.table :
            LET e == arp_snapshot.table[i]
            IN  /\ e.mac \in arp_present
                /\ e.seen = arp_snapshot.timestamp - arp_run_start[e.mac]
                /\ e.seen >= 0)
    /\ [][\A i \in DOMAIN arp_snapshot'.table :
            arp_snapshot'.table[i].mac \notin arp_present
                => arp_snapshot'.table[i].seen = 0]_vars
\* The third scan shows a device that was in the first scan and not in the
\* second, at 0 again, next to one seen in all three.
C25_Witness ==
    /\ arp_scans = 3
    /\ \E i, j \in DOMAIN arp_snapshot.table :
          LET e == arp_snapshot.table[i]
              f == arp_snapshot.table[j]
          IN  /\ e.mac \in arp_back
              /\ e.seen = 0
              /\ f.mac # e.mac
              /\ f.seen >= 2

=============================================================================
